---- MODULE Spec2Model ----
(***************************************************************************)
(* A model of the compilation pipeline of chuk-mcp-music:                  *)
(*   core primitives -> HarmonyContext -> PatternCompiler ->               *)
(*   ArrangementCompiler -> ScoreIR -> MIDI track.                         *)
(*                                                                         *)
(* Conventions                                                             *)
(*  - A Python str that the code inspects character by character is a     *)
(*    sequence of one-character strings; names that are only compared     *)
(*    are TLA+ strings.                                                    *)
(*  - An Optional value is <<>> (None) or <<x>>.                           *)
(*  - A call that may raise returns [ok |-> TRUE, val |-> v] or            *)
(*    [ok |-> FALSE, err |-> "ValueError"].                                *)
(*  - Fraction beat values are counted in quarter beats (unit Q = 1/4     *)
(*    beat), so Duration.WHOLE (4 beats) is 16 and Duration.SIXTEENTH 1.   *)
(***************************************************************************)
EXTENDS Integers, Sequences, FiniteSets, TLC

VARIABLES
    hctx,    \* the HarmonyContext and time signature under query
    hres,    \* the last HarmonyContext call and its outcome
    pin,     \* the (pattern, context, bars) given to PatternCompiler.compile
    pres,    \* the outcome of the last PatternCompiler.compile
    ir,      \* a ScoreIR value
    irres,   \* the last ScoreIR operation and its outcome
    arr,     \* the Arrangement held by the caller
    cache,   \* PatternRegistry._cache
    result,  \* the value returned by the last ArrangementCompiler call
    prev     \* the value returned by the call before it, for the same input
\* (SpecManager gives arr, cache, result and prev the roles its section states)

vars == <<hctx, hres, pin, pres, ir, irres, arr, cache, result, prev>>

\* The value of every variable a specification does not use.
Idle == <<>>

----------------------------------------------------------------------------
(* Generic helpers *)

None == <<>>
Some(x) == <<x>>
IsNone(o) == o = <<>>
Get(o) == o[1]

Ok(v) == [ok |-> TRUE, val |-> v]
Err(e) == [ok |-> FALSE, err |-> e]

Min2(a, b) == IF a < b THEN a ELSE b
Max2(a, b) == IF a > b THEN a ELSE b

RECURSIVE SumSeq(_)
SumSeq(s) == IF s = <<>> THEN 0 ELSE Head(s) + SumSeq(Tail(s))

\* str.startswith
StartsWith(s, p) == Len(s) >= Len(p) /\ SubSeq(s, 1, Len(p)) = p

\* `sub in s` for strings
Contains(s, sub) ==
    \E i \in 1..(Len(s) - Len(sub) + 1) : SubSeq(s, i, i + Len(sub) - 1) = sub

\* str.split(sep) for a one-character separator: the list of the pieces
RECURSIVE SplitAcc(_, _, _)
SplitAcc(s, sep, cur) ==
    IF s = <<>> THEN <<cur>>
    ELSE IF Head(s) = sep THEN <<cur>> \o SplitAcc(Tail(s), sep, <<>>)
    ELSE SplitAcc(Tail(s), sep, Append(cur, Head(s)))

Split(s, sep) == SplitAcc(s, sep, <<>>)

Digits == <<"0", "1", "2", "3", "4", "5", "6", "7", "8", "9">>
IsDigit(c) == \E i \in 1..10 : Digits[i] = c
DigitValue(c) == (CHOOSE i \in 1..10 : Digits[i] = c) - 1

RECURSIVE DigitsValue(_, _)
DigitsValue(s, acc) ==
    IF s = <<>> THEN acc ELSE DigitsValue(Tail(s), 10 * acc + DigitValue(Head(s)))

\* int(s) for a str: an optional sign and at least one decimal digit;
\* anything else raises ValueError.  (Surrounding white space and digit
\* separators, which int() also accepts, are not in the modelled inputs.)
ParseInt(s) ==
    LET signed == s # <<>> /\ Head(s) \in {"-", "+"}
        body   == IF signed THEN Tail(s) ELSE s
    IN  IF body = <<>> \/ \E i \in 1..Len(body) : ~IsDigit(body[i])
        THEN Err("ValueError")
        ELSE Ok(IF signed /\ Head(s) = "-" THEN 0 - DigitsValue(body, 0)
                ELSE DigitsValue(body, 0))

----------------------------------------------------------------------------
(* core/pitch.py, core/scale.py *)

\* PitchClass.transpose
transpose(pc, semitones) == (pc + semitones) % 12

\* PitchClass.to_midi
to_midi(pc, octave) == pc + (octave + 1) * 12

\* ScaleType.MAJOR ... : the interval pattern of each scale type
ScaleIntervals ==
    [major          |-> <<2, 2, 1, 2, 2, 2, 1>>,
     natural_minor  |-> <<2, 1, 2, 2, 1, 2, 2>>,
     harmonic_minor |-> <<2, 1, 2, 2, 1, 3, 1>>,
     melodic_minor  |-> <<2, 1, 2, 2, 2, 2, 1>>,
     dorian         |-> <<2, 1, 2, 2, 2, 1, 2>>,
     phrygian       |-> <<1, 2, 2, 2, 1, 2, 2>>,
     lydian         |-> <<2, 2, 2, 1, 2, 2, 1>>,
     mixolydian     |-> <<2, 2, 1, 2, 2, 1, 2>>,
     locrian        |-> <<1, 2, 2, 1, 2, 2, 2>>]

\* ScaleDegree(degree, alteration): __post_init__ raises outside 1..7
ScaleDegree(degree, alteration) ==
    IF degree >= 1 /\ degree <= 7
    THEN Ok([degree |-> degree, alteration |-> alteration])
    ELSE Err("ValueError")

\* ScaleType.degree_to_semitones
degree_to_semitones(scale, sd) ==
    IF sd.degree = 1 THEN sd.alteration
    ELSE SumSeq(SubSeq(ScaleIntervals[scale], 1, sd.degree - 1)) + sd.alteration

\* Key.degree_to_pitch
degree_to_pitch(key, sd) == transpose(key.root, degree_to_semitones(key.scale, sd))

----------------------------------------------------------------------------
(* core/chord.py *)

\* ChordQuality.MAJOR ... : the intervals from the root, in semitones
QualityIntervals ==
    [major             |-> {0, 4, 7},
     minor             |-> {0, 3, 7},
     diminished        |-> {0, 3, 6},
     augmented         |-> {0, 4, 8},
     major_7           |-> {0, 4, 7, 11},
     minor_7           |-> {0, 3, 7, 10},
     dominant_7        |-> {0, 4, 7, 10},
     diminished_7      |-> {0, 3, 6, 9},
     half_diminished_7 |-> {0, 3, 6, 10},
     sus2              |-> {0, 2, 7},
     sus4              |-> {0, 5, 7}]

\* The first interval of the quality among `among`, None if there is none
\* (no defined quality holds two of them).
QualityTone(quality, among) ==
    LET hit == QualityIntervals[quality] \cap among
    IN  IF hit = {} THEN None ELSE Some(CHOOSE x \in hit : \A y \in hit : x <= y)

\* ChordQuality.third / fifth / seventh
third(quality) == QualityTone(quality, {3, 4})
fifth(quality) == QualityTone(quality, {6, 7, 8})
seventh(quality) == QualityTone(quality, {9, 10, 11})

\* Leading characters of s equal to c, as the alteration loops strip them
RECURSIVE CountLeading(_, _)
CountLeading(s, c) ==
    IF s # <<>> /\ Head(s) = c THEN 1 + CountLeading(Tail(s), c) ELSE 0

Drop(s, n) == SubSeq(s, n + 1, Len(s))

\* `char.upper() in "IV"`
IsNumeralChar(c) == c \in {"I", "V", "i", "v"}

RECURSIVE NumeralPrefixLen(_)
NumeralPrefixLen(s) ==
    IF s # <<>> /\ IsNumeralChar(Head(s)) THEN 1 + NumeralPrefixLen(Tail(s)) ELSE 0

UpperChar(c) == IF c = "i" THEN "I" ELSE IF c = "v" THEN "V" ELSE c
Upper(s) == [k \in 1..Len(s) |-> UpperChar(s[k])]

\* degree_map of RomanNumeral.parse
NumeralDegree(u) ==
    CASE u = <<"I">> -> Some(1)
      [] u = <<"I", "I">> -> Some(2)
      [] u = <<"I", "I", "I">> -> Some(3)
      [] u = <<"I", "V">> -> Some(4)
      [] u = <<"V">> -> Some(5)
      [] u = <<"V", "I">> -> Some(6)
      [] u = <<"V", "I", "I">> -> Some(7)
      [] OTHER -> None

\* RomanNumeral.parse (the symbol already stripped of white space)
RomanNumeralParse(symbol) ==
    LET flats   == CountLeading(symbol, "b")
        s1      == Drop(symbol, flats)
        sharps  == CountLeading(s1, "#")
        s2      == Drop(s1, sharps)
        n       == NumeralPrefixLen(s2)
        numeral == SubSeq(s2, 1, n)
        suffix  == Drop(s2, n)
        deg     == NumeralDegree(Upper(numeral))
        is_minor == numeral # <<>> /\ \A k \in 1..Len(numeral) : numeral[k] \in {"i", "v"}
        quality ==
            IF Contains(suffix, <<"°">>) \/ Contains(suffix, <<"d", "i", "m">>)
                THEN "diminished"
            ELSE IF Contains(suffix, <<"+">>) \/ Contains(suffix, <<"a", "u", "g">>)
                THEN "augmented"
            ELSE IF Contains(suffix, <<"7">>)
                THEN IF Contains(suffix, <<"Δ">>) \/ Contains(suffix, <<"m", "a", "j">>)
                        THEN "major_7"
                     ELSE IF Contains(suffix, <<"ø">>) THEN "half_diminished_7"
                     ELSE IF is_minor THEN "minor_7"
                     ELSE "dominant_7"
            ELSE IF is_minor THEN "minor"
            ELSE "major"
    IN  IF IsNone(deg) THEN Err("ValueError")
        ELSE Ok([degree |-> Get(deg), alteration |-> sharps - flats,
                 quality |-> quality, inversion |-> 0])

\* numeral_map of RomanNumeral.__str__
NumeralChars(degree) ==
    CASE degree = 1 -> <<"I">>
      [] degree = 2 -> <<"I", "I">>
      [] degree = 3 -> <<"I", "I", "I">>
      [] degree = 4 -> <<"I", "V">>
      [] degree = 5 -> <<"V">>
      [] degree = 6 -> <<"V", "I">>
      [] degree = 7 -> <<"V", "I", "I">>

\* str.lower on the characters of a numeral and its alterations
LowerChar(c) == IF c = "I" THEN "i" ELSE IF c = "V" THEN "v" ELSE c
Lower(s) == [k \in 1..Len(s) |-> LowerChar(s[k])]

\* The quality suffix of RomanNumeral.__str__
QualitySuffix(quality) ==
    CASE quality = "diminished" -> <<"°">>
      [] quality = "augmented" -> <<"+">>
      [] quality = "dominant_7" -> <<"7">>
      [] quality = "major_7" -> <<"Δ", "7">>
      [] quality = "minor_7" -> <<"7">>
      [] quality = "half_diminished_7" -> <<"ø", "7">>
      [] quality = "diminished_7" -> <<"°", "7">>
      [] OTHER -> <<>>

\* The inversion suffix of RomanNumeral.__str__
InversionSuffix(inversion) ==
    CASE inversion = 1 -> <<"6">>
      [] inversion = 2 -> <<"6", "4">>
      [] inversion = 3 -> <<"4", "2">>
      [] OTHER -> <<>>

\* RomanNumeral.__str__
RomanNumeralStr(rn) ==
    LET altered == IF rn.alteration < 0
                   THEN [k \in 1..(0 - rn.alteration) |-> "b"] \o NumeralChars(rn.degree)
                   ELSE [k \in 1..rn.alteration |-> "#"] \o NumeralChars(rn.degree)
        cased   == IF rn.quality \in {"minor", "diminished", "minor_7"}
                   THEN Lower(altered) ELSE altered
    IN  cased \o QualitySuffix(rn.quality) \o InversionSuffix(rn.inversion)

\* RomanNumeral.I
RomanNumeral_I == [degree |-> 1, alteration |-> 0, quality |-> "major", inversion |-> 0]

\* RomanNumeral.resolve: the root and quality of the chord in the key
RomanNumeralResolve(rn, key) ==
    [root |-> degree_to_pitch(key, [degree |-> rn.degree, alteration |-> rn.alteration]),
     quality |-> rn.quality]

----------------------------------------------------------------------------
(* core/rhythm.py *)

\* TimeSignature.parse: beats per bar and the beat unit in quarter beats
TimeSig(n, unitQ) == [beats_per_bar |-> n, unitQ |-> unitQ]

\* int(x) of a count of quarter beats times ticks per beat: the product
\* cut to its whole part, toward zero
QToTicks(q, tpb) ==
    IF q >= 0 THEN (q * tpb) \div 4 ELSE 0 - (((0 - q) * tpb) \div 4)

\* TimeSignature.bar_to_ticks: bar_duration.to_ticks
bar_to_ticks(ts, tpb) == QToTicks(ts.unitQ * ts.beats_per_bar, tpb)

\* BeatPosition.to_ticks
position_to_ticks(pos, ts, tpb) == pos.bar * bar_to_ticks(ts, tpb) + QToTicks(pos.beatQ, tpb)

\* BeatPosition.to_beats, in quarter beats
to_beats(pos, ts) == pos.bar * ts.beats_per_bar * 4 + pos.beatQ

----------------------------------------------------------------------------
(* patterns/compiler.py: HarmonyContext *)

DEFAULT_REGISTERS ==
    [sub     |-> <<24, 36>>,
     bass    |-> <<36, 52>>,
     drums   |-> <<36, 84>>,
     harmony |-> <<48, 72>>,
     melody  |-> <<60, 84>>,
     fx      |-> <<36, 96>>,
     vocal   |-> <<48, 84>>]

LayerRoles == DOMAIN DEFAULT_REGISTERS

\* A chord index that stops at the last chord instead of wrapping
ChordIndexClamped(total, chord, n) == Min2(total \div chord, n - 1)

\* `int(total_beats // chord_beats) % len(self.progression)`
ChordIndex0(total, chord, n) == (total \div chord) % n

\* HarmonyContext.chord_at: the (0-based) index into the progression
chord_index(h, pos, ts) == ChordIndex0(to_beats(pos, ts), h.harmonic_rhythm, Len(h.progression))

\* HarmonyContext.chord_at
chord_at(h, pos, ts) ==
    IF h.progression = <<>> THEN Ok(RomanNumeral_I)
    ELSE RomanNumeralParse(h.progression[chord_index(h, pos, ts) + 1])

\* HarmonyContext._octave_for_register
_octave_for_register(register) == (((register[1] + register[2]) \div 2) \div 12) - 1

\* A note below the register moved straight to its lower bound
ShiftUpToBound(n, low) == IF n < low THEN low ELSE n

RECURSIVE ShiftUp(_, _)
ShiftUp(n, low) == IF n < low THEN ShiftUp(n + 12, low) ELSE n

RECURSIVE ShiftDown(_, _)
ShiftDown(n, high) == IF n > high THEN ShiftDown(n - 12, high) ELSE n

\* The final `max(low, min(high, midi_note))`
HardClamp(n, low, high) == Max2(low, Min2(high, n))

\* HarmonyContext._clamp_to_register
_clamp_to_register(midi_note, register) ==
    HardClamp(ShiftDown(ShiftUp(midi_note, register[1]), register[2]),
              register[1], register[2])

\* The pitch class a "chord.<tone>" spec denotes in the resolved chord
ChordTonePitch(chord, tone) ==
    CASE tone = <<"r", "o", "o", "t">> -> chord.root
      [] tone = <<"t", "h", "i", "r", "d">> ->
            IF IsNone(third(chord.quality)) THEN chord.root
            ELSE transpose(chord.root, Get(third(chord.quality)))
      [] tone = <<"f", "i", "f", "t", "h">> ->
            IF IsNone(fifth(chord.quality)) THEN transpose(chord.root, 7)
            ELSE transpose(chord.root, Get(fifth(chord.quality)))
      [] tone = <<"s", "e", "v", "e", "n", "t", "h">> ->
            IF IsNone(seventh(chord.quality)) THEN transpose(chord.root, 10)
            ELSE transpose(chord.root, Get(seventh(chord.quality)))
      [] OTHER -> chord.root

\* The "scale." branch of resolve_degree: the degree number is not clamped
ScaleBranchDegree(n) == ScaleDegree(n, 0)

\* The bare-number branch of resolve_degree: the degree number is clamped
NumericBranchDegree(n) == ScaleDegree(Min2(7, Max2(1, n)), 0)

\* HarmonyContext.resolve_degree up to the register clamp: the MIDI note
\* at the role's base octave, or the error the call raises
unclamped_degree(h, degree_str, pos, ts, role, octave_shift) ==
    LET register == DEFAULT_REGISTERS[role]
        octave   == _octave_for_register(register) + octave_shift
    IN  IF StartsWith(degree_str, <<"c", "h", "o", "r", "d", ".">>) THEN
            LET rn == chord_at(h, pos, ts)
            IN  IF ~rn.ok THEN rn
                ELSE Ok(to_midi(ChordTonePitch(RomanNumeralResolve(rn.val, h.key),
                                               Split(degree_str, ".")[2]), octave))
        ELSE IF StartsWith(degree_str, <<"s", "c", "a", "l", "e", ".">>) THEN
            LET num == ParseInt(Split(degree_str, ".")[2])
            IN  IF ~num.ok THEN num
                ELSE LET sd == ScaleBranchDegree(num.val)
                     IN  IF ~sd.ok THEN sd
                         ELSE Ok(to_midi(degree_to_pitch(h.key, sd.val), octave))
        ELSE
            LET num == ParseInt(degree_str)
            IN  IF ~num.ok THEN Ok(to_midi(h.key.root, octave))
                ELSE Ok(to_midi(degree_to_pitch(h.key, NumericBranchDegree(num.val).val),
                                octave))

\* HarmonyContext.resolve_degree
resolve_degree(h, degree_str, pos, ts, role, octave_shift) ==
    LET raw == unclamped_degree(h, degree_str, pos, ts, role, octave_shift)
    IN  IF ~raw.ok THEN raw
        ELSE Ok(_clamp_to_register(raw.val, DEFAULT_REGISTERS[role]))

----------------------------------------------------------------------------
(* HarmonyContext queries: the inputs and the specification SpecHarmony *)

MaxBar == 4      \* positions queried lie in bars 0..MaxBar
MaxShift == 1    \* octave shifts queried lie in -MaxShift..MaxShift

HKeys ==
    {[root |-> 0, scale |-> "major"], [root |-> 7, scale |-> "major"],
     [root |-> 2, scale |-> "natural_minor"], [root |-> 9, scale |-> "harmonic_minor"]}

HProgressions ==
    { <<>>,
      << <<"i">>, <<"V", "I">>, <<"I", "I", "I">>, <<"V", "I", "I">> >>,
      << <<"I">>, <<"V", "7">>, <<"b", "V", "I", "I">>, <<"i", "i", "°">>, <<"I", "V", "Δ", "7">> >>,
      << <<"I">>, <<"N">> >> }

\* Duration.HALF, Duration.WHOLE and Duration(Fraction(8)), in quarter beats
HRhythms == {8, 16, 32}

TimeSigs == {TimeSig(4, 4), TimeSig(3, 4), TimeSig(6, 2)}

\* Beat offsets within a bar, in quarter beats
HBeatQs == {0, 6, 8, 15}

DegreeSpecs ==
    { <<"c", "h", "o", "r", "d", ".", "r", "o", "o", "t">>,
      <<"c", "h", "o", "r", "d", ".", "t", "h", "i", "r", "d">>,
      <<"c", "h", "o", "r", "d", ".", "f", "i", "f", "t", "h">>,
      <<"c", "h", "o", "r", "d", ".", "s", "e", "v", "e", "n", "t", "h">>,
      <<"c", "h", "o", "r", "d", ".", "n", "i", "n", "t", "h">>,
      <<"s", "c", "a", "l", "e", ".", "1">>,
      <<"s", "c", "a", "l", "e", ".", "3">>,
      <<"s", "c", "a", "l", "e", ".", "7">>,
      <<"s", "c", "a", "l", "e", ".", "0">>,
      <<"s", "c", "a", "l", "e", ".", "9">>,
      <<"s", "c", "a", "l", "e", ".", "-", "2">>,
      <<"5">>, <<"7">>, <<"0">>, <<"9">>, <<"-", "2">>,
      <<"r", "o", "o", "t">> }

HValidProgression(p) == \A k \in 1..Len(p) : RomanNumeralParse(p[k]).ok

InitHarmony ==
    /\ hctx \in [key : HKeys, progression : HProgressions,
                 harmonic_rhythm : HRhythms, ts : TimeSigs]
    /\ hres = [op |-> "none"]
    /\ pin = Idle /\ pres = Idle /\ ir = Idle /\ irres = Idle
    /\ arr = Idle /\ cache = Idle /\ result = Idle /\ prev = Idle

\* A call of HarmonyContext.chord_at
ChordAt ==
    /\ hres.op = "none"
    /\ \E bar \in 0..MaxBar, beatQ \in HBeatQs :
         LET pos == [bar |-> bar, beatQ |-> beatQ]
         IN  hres' = [op |-> "chord_at", pos |-> pos,
                      index |-> IF hctx.progression = <<>> THEN None
                                ELSE Some(chord_index(hctx, pos, hctx.ts)),
                      out |-> chord_at(hctx, pos, hctx.ts)]
    /\ UNCHANGED <<hctx, pin, pres, ir, irres, arr, cache, result, prev>>

\* A call of HarmonyContext.resolve_degree
ResolveDegree ==
    /\ hres.op = "none"
    /\ \E degree \in DegreeSpecs, bar \in 0..1, role \in LayerRoles,
          shift \in (0 - MaxShift)..MaxShift :
         LET pos == [bar |-> bar, beatQ |-> 0]
         IN  hres' = [op |-> "resolve_degree", degree |-> degree, pos |-> pos,
                      role |-> role, octave_shift |-> shift,
                      out |-> resolve_degree(hctx, degree, pos, hctx.ts, role, shift)]
    /\ UNCHANGED <<hctx, pin, pres, ir, irres, arr, cache, result, prev>>

NextHarmony == ChordAt \/ ResolveDegree

SpecHarmony == InitHarmony /\ [][NextHarmony]_vars

----------------------------------------------------------------------------
(* Claims about HarmonyContext, checked under SpecHarmony *)

\* C6: for every role and every degree spec (chord.<tone>, scale.<n>, a bare
\* integer, anything else), at every position and octave shift,
\* resolve_degree returns a MIDI pitch inside the register of the role.
C6_ResolvedPitchInRegister ==
    (hres.op = "resolve_degree" /\ HValidProgression(hctx.progression)) =>
        /\ hres.out.ok
        /\ DEFAULT_REGISTERS[hres.role][1] <= hres.out.val
        /\ hres.out.val <= DEFAULT_REGISTERS[hres.role][2]

\* C7: for a non-empty progression chord_at returns the chord number
\* floor(absoluteBeats / harmonicRhythmBeats) mod len(progression): the
\* position lies in the i-th harmonic-rhythm slot of some cycle through the
\* progression; with one chord per bar in 4/4 the chord of bar b is
\* progression[b mod len], so the bar after the last chord has the first chord.
C7_ChordAtCycles ==
    (hres.op = "chord_at" /\ hctx.progression # <<>>) =>
        LET n     == Len(hctx.progression)
            total == hres.pos.bar * hctx.ts.beats_per_bar * 4 + hres.pos.beatQ
            hr    == hctx.harmonic_rhythm
        IN  /\ \E i \in 0..(n - 1), c \in 0..total :
                 /\ (c * n + i) * hr <= total
                 /\ total < (c * n + i + 1) * hr
                 /\ hres.index = Some(i)
                 /\ hres.out = RomanNumeralParse(hctx.progression[i + 1])
            /\ (hctx.ts = TimeSig(4, 4) /\ hr = 16 /\ hres.pos.beatQ < 16) =>
                 hres.out = RomanNumeralParse(hctx.progression[(hres.pos.bar % n) + 1])

\* C7 witness: one chord per bar in 4/4, a four-chord progression queried in
\* the bar after its last chord, answered with its first chord.
C7_Witness ==
    /\ hres.op = "chord_at"
    /\ hctx.ts = TimeSig(4, 4) /\ hctx.harmonic_rhythm = 16
    /\ Len(hctx.progression) = 4 /\ hres.pos.bar = 4
    /\ hres.out = RomanNumeralParse(hctx.progression[1])
    /\ hres.out.ok

\* C13: for every integer n, the degree spec "scale.<n>" resolves without
\* error to the pitch of scale degree min(7, max(1, n)), and gives the same
\* pitch as the bare-integer spec "<n>" for the same position, role and
\* octave shift.
C13_ScaleSpecClampsLikeBareInteger ==
    (/\ hres.op = "resolve_degree"
     /\ StartsWith(hres.degree, <<"s", "c", "a", "l", "e", ".">>)
     /\ ParseInt(Split(hres.degree, ".")[2]).ok) =>
        LET n == ParseInt(Split(hres.degree, ".")[2]).val
        IN  /\ hres.out.ok
            /\ hres.out.val =
                   _clamp_to_register(
                       to_midi(degree_to_pitch(hctx.key,
                                               ScaleDegree(Min2(7, Max2(1, n)), 0).val),
                               _octave_for_register(DEFAULT_REGISTERS[hres.role])
                                   + hres.octave_shift),
                       DEFAULT_REGISTERS[hres.role])
            /\ hres.out = resolve_degree(hctx, Split(hres.degree, ".")[2], hres.pos,
                                         hctx.ts, hres.role, hres.octave_shift)

\* C29: register clamping moves a resolved pitch only by whole octaves: for
\* every role, key, chord and degree spec, the pitch resolve_degree returns
\* has the pitch class (value mod 12) of the chord tone or scale degree the
\* spec denotes; the final hard clamp to the register bounds never changes
\* which note is played.
C29_ClampKeepsPitchClass ==
    (hres.op = "resolve_degree" /\ hres.out.ok) =>
        \E raw \in {unclamped_degree(hctx, hres.degree, hres.pos, hctx.ts, hres.role,
                                     hres.octave_shift).val} :
        \E register \in {DEFAULT_REGISTERS[hres.role]} :
            /\ hres.out.val % 12 = raw % 12
            /\ hres.out.val = ShiftDown(ShiftUp(raw, register[1]), register[2])
            /\ register[1] <= hres.out.val /\ hres.out.val <= register[2]
            /\ (hres.degree = <<"r", "o", "o", "t">>) =>
                  hres.out.val % 12 = hctx.key.root
            /\ (hres.degree = <<"s", "c", "a", "l", "e", ".", "3">>) =>
                  hres.out.val % 12
                      = degree_to_pitch(hctx.key, ScaleDegree(3, 0).val)
            /\ (hres.degree = <<"c", "h", "o", "r", "d", ".", "r", "o", "o", "t">>) =>
                  hres.out.val % 12
                      = RomanNumeralResolve(chord_at(hctx, hres.pos, hctx.ts).val,
                                            hctx.key).root

\* C29 witness: the fifth of the chord has been resolved for the bass an
\* octave down, below the register, and was moved up one octave into it.
C29_Witness ==
    /\ hres.op = "resolve_degree" /\ hres.out.ok
    /\ hres.role = "bass" /\ hres.octave_shift = 0 - 1
    /\ hres.degree = <<"c", "h", "o", "r", "d", ".", "f", "i", "f", "t", "h">>
    /\ unclamped_degree(hctx, hres.degree, hres.pos, hctx.ts, hres.role,
                        hres.octave_shift).val < DEFAULT_REGISTERS["bass"][1]
    /\ hres.out.val = unclamped_degree(hctx, hres.degree, hres.pos, hctx.ts,
                                       hres.role, hres.octave_shift).val + 12
    /\ hres.out.val % 12 # DEFAULT_REGISTERS["bass"][1] % 12

----------------------------------------------------------------------------
(* compiler/score_ir.py *)

SCHEMA_VERSION == "score_ir/v1"

\* Lexicographic `<` on two tuples of integers of the same length
RECURSIVE TupleLess(_, _)
TupleLess(a, b) ==
    IF a = <<>> THEN FALSE
    ELSE IF Head(a) < Head(b) THEN TRUE
    ELSE IF Head(a) > Head(b) THEN FALSE
    ELSE TupleLess(Tail(a), Tail(b))

\* An insertion that puts x in front of the elements whose key equals its own
RECURSIVE InsertBeforeEqual(_, _)
InsertBeforeEqual(x, s) ==
    IF s = <<>> THEN <<x>>
    ELSE IF ~TupleLess(Head(s)[1], x[1]) THEN <<x>> \o s
    ELSE <<Head(s)>> \o InsertBeforeEqual(x, Tail(s))

\* One step of sorted(): the <<key, item>> pair x enters the sorted list s
\* behind every element that is not greater (sorted() is stable and only
\* asks `<`).
RECURSIVE InsertSorted(_, _)
InsertSorted(x, s) ==
    IF s = <<>> THEN <<x>>
    ELSE IF TupleLess(x[1], Head(s)[1]) THEN <<x>> \o s
    ELSE <<Head(s)>> \o InsertSorted(x, Tail(s))

RECURSIVE SortPairs(_, _)
SortPairs(pairs, acc) ==
    IF pairs = <<>> THEN acc
    ELSE SortPairs(Tail(pairs), InsertSorted(Head(pairs), acc))

\* The items of a list of <<key, item>> pairs
Items(pairs) == [k \in 1..Len(pairs) |-> pairs[k][2]]

\* sorted(items, key=...) given the key of each item
Sorted(items, keys) ==
    Items(SortPairs([k \in 1..Len(items) |-> <<keys[k], items[k]>>], <<>>))

\* The fields of IRNote that take part in ==, < and hash (compare=True)
IRNoteKey(n) == <<n.start_ticks, n.channel, n.pitch, n.duration_ticks, n.velocity>>

\* A validation that does not look at the channel
IRNoteValidButChannel(n) ==
    /\ 0 <= n.pitch /\ n.pitch <= 127
    /\ 0 <= n.velocity /\ n.velocity <= 127
    /\ n.start_ticks >= 0
    /\ n.duration_ticks >= 0

\* IRNote.__post_init__
IRNoteValid(n) ==
    /\ 0 <= n.pitch /\ n.pitch <= 127
    /\ 0 <= n.velocity /\ n.velocity <= 127
    /\ 0 <= n.channel /\ n.channel <= 15
    /\ n.start_ticks >= 0
    /\ n.duration_ticks >= 0

\* The order of str values, for the names the model uses
StrOrder == <<"", "bass", "chorus", "drums", "lead", "verse">>
StrRank(name) == CHOOSE k \in 1..Len(StrOrder) : StrOrder[k] = name

\* `if self.source_layer:` on a str | None
Truthy(o) == o # None /\ Get(o) # ""

\* dict.get(key)
DictGet(d, k) == IF k \in DOMAIN d THEN Some(d[k]) ELSE None

\* IRNote.to_dict
IRNoteToDict(n) ==
    LET keys == {"start_ticks", "channel", "pitch", "duration_ticks", "velocity"}
                \cup (IF Truthy(n.source_layer) THEN {"source_layer"} ELSE {})
                \cup (IF Truthy(n.source_pattern) THEN {"source_pattern"} ELSE {})
                \cup (IF Truthy(n.source_section) THEN {"source_section"} ELSE {})
                \cup (IF n.bar # None THEN {"bar"} ELSE {})
                \cup (IF n.beat # None THEN {"beat"} ELSE {})
    IN  [k \in keys |->
            IF k \in {"source_layer", "source_pattern", "source_section", "bar", "beat"}
            THEN Get(n[k]) ELSE n[k]]

\* IRNote.from_dict
IRNoteFromDict(d) ==
    [start_ticks |-> d.start_ticks, channel |-> d.channel, pitch |-> d.pitch,
     duration_ticks |-> d.duration_ticks, velocity |-> d.velocity,
     source_layer |-> DictGet(d, "source_layer"),
     source_pattern |-> DictGet(d, "source_pattern"),
     source_section |-> DictGet(d, "source_section"),
     bar |-> DictGet(d, "bar"), beat |-> DictGet(d, "beat")]

\* ScoreIR.canonicalize.  `layers` is the dict as the list of its items in
\* insertion order; its keys are distinct.
canonicalize(x) ==
    [schema |-> x.schema, name |-> x.name, key |-> x.key, tempo |-> x.tempo,
     time_signature |-> x.time_signature, ticks_per_beat |-> x.ticks_per_beat,
     total_ticks |-> x.total_ticks, total_bars |-> x.total_bars,
     notes |-> Sorted(x.notes, [k \in 1..Len(x.notes) |-> IRNoteKey(x.notes[k])]),
     sections |-> Sorted(x.sections,
                         [k \in 1..Len(x.sections) |-> <<x.sections[k].start_ticks>>]),
     tempo_events |-> Sorted(x.tempo_events,
                             [k \in 1..Len(x.tempo_events) |-> <<x.tempo_events[k].ticks>>]),
     layers |-> Sorted(x.layers, [k \in 1..Len(x.layers) |-> <<StrRank(x.layers[k][1])>>])]

\* The dict to_dict builds from the canonical form c
CanonicalToDict(c) ==
    [schema |-> c.schema, name |-> c.name, key |-> c.key, tempo |-> c.tempo,
     time_signature |-> c.time_signature, ticks_per_beat |-> c.ticks_per_beat,
     total_ticks |-> c.total_ticks, total_bars |-> c.total_bars,
     notes |-> [k \in 1..Len(c.notes) |-> IRNoteToDict(c.notes[k])],
     sections |-> c.sections,
     tempo_events |-> c.tempo_events,
     layers |-> c.layers]

\* ScoreIR.to_dict: `canonical = self.canonicalize()`, then the dict
to_dict(x) == CanonicalToDict(canonicalize(x))

\* ScoreIR.to_json: the JSON document, as the tree json.dumps writes (ints,
\* strs, lists and str-keyed objects, each of which json.loads reads back
\* as written)
to_json(x) == to_dict(x)

\* ScoreIR.from_dict (every top-level key is present in a document that
\* to_dict wrote)
from_dict(d) ==
    [schema |-> d.schema, name |-> d.name, key |-> d.key, tempo |-> d.tempo,
     time_signature |-> d.time_signature, ticks_per_beat |-> d.ticks_per_beat,
     total_ticks |-> d.total_ticks, total_bars |-> d.total_bars,
     notes |-> [k \in 1..Len(d.notes) |-> IRNoteFromDict(d.notes[k])],
     sections |-> d.sections,
     tempo_events |-> d.tempo_events,
     layers |-> d.layers]

\* ScoreIR.from_json
from_json(j) == from_dict(j)

\* IRNote(...) with the fields of n: the note, or the ValueError
\* __post_init__ raises
IRNoteNew(n) == IF IRNoteValid(n) THEN Ok(n) ELSE Err("ValueError")

\* ScoreIR.from_json on a document that holds every key, whoever wrote it:
\* `notes=[IRNote.from_dict(n) for n in d.get("notes", [])]` builds each
\* note through IRNote(...), and the first error ends the call
from_json_document(j) ==
    IF \E k \in 1..Len(j.notes) : ~IRNoteNew(IRNoteFromDict(j.notes[k])).ok
    THEN Err("ValueError")
    ELSE Ok(from_json(j))

\* set(self.notes): IRNote hashes and compares on its compare=True fields
NoteSet(notes) == {IRNoteKey(notes[k]) : k \in 1..Len(notes)}

\* ScoreIR.diff_summary
diff_summary(a, b) ==
    [notes_added |-> Cardinality(NoteSet(b.notes) \ NoteSet(a.notes)),
     notes_removed |-> Cardinality(NoteSet(a.notes) \ NoteSet(b.notes)),
     notes_unchanged |-> Cardinality(NoteSet(a.notes) \cap NoteSet(b.notes)),
     tempo_changed |-> a.tempo # b.tempo,
     key_changed |-> a.key # b.key,
     bars_changed |-> a.total_bars # b.total_bars,
     sections_changed |-> [k \in 1..Len(a.sections) |-> a.sections[k].name]
                          # [k \in 1..Len(b.sections) |-> b.sections[k].name]]

----------------------------------------------------------------------------
(* ScoreIR operations: the inputs and the specification SpecIR *)

MaxNotes == 2    \* a ScoreIR under test holds at most MaxNotes notes

\* Provenance of a note: none; empty strings with bar 0, beat 0.0; the tags
\* the arrangement compiler writes
IRProvenances ==
    { [source_layer |-> None, source_pattern |-> None, source_section |-> None,
       bar |-> None, beat |-> None],
      [source_layer |-> Some(""), source_pattern |-> Some(""), source_section |-> Some(""),
       bar |-> Some(0), beat |-> Some(0)],
      [source_layer |-> Some("bass"), source_pattern |-> Some("bass/root-pulse"),
       source_section |-> Some("verse"), bar |-> Some(1), beat |-> Some(2)] }

IRNote(start, pitch, prov) ==
    [start_ticks |-> start, channel |-> 0, pitch |-> pitch, duration_ticks |-> 480,
     velocity |-> 100, source_layer |-> prov.source_layer,
     source_pattern |-> prov.source_pattern, source_section |-> prov.source_section,
     bar |-> prov.bar, beat |-> prov.beat]

IRNotes == {IRNote(start, pitch, prov) : start \in {0, 480}, pitch \in {60, 64},
                                         prov \in IRProvenances}

IRNoteLists == UNION {[1..n -> IRNotes] : n \in 0..MaxNotes}

\* The pitches a note is changed to before a diff
DiffPitches == {60, 64, 67}

IRSectionMarker(name, start, end, bars) ==
    [name |-> name, start_ticks |-> start, end_ticks |-> end, bars |-> bars]

IRTempoEvent(ticks, bpm) == [ticks |-> ticks, bpm |-> bpm]

\* Everything of a ScoreIR but its notes: the default-constructed IR; one
\* listed in canonical order; one listed out of order; one whose markers
\* and tempo events share their tick
IRShells ==
    { [schema |-> SCHEMA_VERSION, name |-> "", key |-> "", tempo |-> 120,
       time_signature |-> [numerator |-> 4, denominator |-> 4],
       ticks_per_beat |-> 480, total_ticks |-> 0, total_bars |-> 0,
       sections |-> <<>>, tempo_events |-> <<>>, layers |-> <<>>],
      [schema |-> SCHEMA_VERSION, name |-> "song", key |-> "D_minor", tempo |-> 124,
       time_signature |-> [numerator |-> 4, denominator |-> 4],
       ticks_per_beat |-> 480, total_ticks |-> 3840, total_bars |-> 2,
       sections |-> <<IRSectionMarker("verse", 0, 1920, 1),
                      IRSectionMarker("chorus", 1920, 3840, 1)>>,
       tempo_events |-> <<IRTempoEvent(0, 124)>>,
       layers |-> << <<"bass", [role |-> "bass", channel |-> 0]>>,
                     <<"lead", [role |-> "melody", channel |-> 1]>> >>],
      [schema |-> SCHEMA_VERSION, name |-> "song", key |-> "C_major", tempo |-> 90,
       time_signature |-> [numerator |-> 3, denominator |-> 4],
       ticks_per_beat |-> 96, total_ticks |-> 576, total_bars |-> 2,
       sections |-> <<IRSectionMarker("chorus", 288, 576, 1),
                      IRSectionMarker("verse", 0, 288, 1)>>,
       tempo_events |-> <<IRTempoEvent(288, 100), IRTempoEvent(0, 90)>>,
       layers |-> << <<"lead", [role |-> "melody", channel |-> 1]>>,
                     <<"drums", [role |-> "drums", channel |-> 9]>>,
                     <<"bass", [role |-> "bass", channel |-> 0]>> >>],
      [schema |-> SCHEMA_VERSION, name |-> "song", key |-> "C_major", tempo |-> 120,
       time_signature |-> [numerator |-> 4, denominator |-> 4],
       ticks_per_beat |-> 480, total_ticks |-> 1920, total_bars |-> 1,
       sections |-> <<IRSectionMarker("verse", 0, 1920, 1),
                      IRSectionMarker("chorus", 0, 1920, 1)>>,
       tempo_events |-> <<IRTempoEvent(0, 120), IRTempoEvent(0, 90)>>,
       layers |-> << <<"bass", [role |-> "bass", channel |-> 0]>> >>] }

\* ScoreIR(...): a shell with its notes
ScoreIR(shell, notes) ==
    [schema |-> shell.schema, name |-> shell.name, key |-> shell.key,
     tempo |-> shell.tempo, time_signature |-> shell.time_signature,
     ticks_per_beat |-> shell.ticks_per_beat, total_ticks |-> shell.total_ticks,
     total_bars |-> shell.total_bars, notes |-> notes, sections |-> shell.sections,
     tempo_events |-> shell.tempo_events, layers |-> shell.layers]

\* The list s in the order perm (a permutation of its indices)
Reordered(s, perm) == [k \in 1..Len(s) |-> s[perm[k]]]

Reversed(s) == [k \in 1..Len(s) |-> s[Len(s) + 1 - k]]

InitIR ==
    /\ \E shell \in IRShells, notes \in IRNoteLists : ir = ScoreIR(shell, notes)
    /\ irres = [op |-> "none"]
    /\ hctx = Idle /\ hres = Idle /\ pin = Idle /\ pres = Idle
    /\ arr = Idle /\ cache = Idle /\ result = Idle /\ prev = Idle

\* x.canonicalize() and x.canonicalize().canonicalize()
Canonicalize ==
    /\ irres.op = "none"
    /\ irres' = [op |-> "canonicalize", once |-> canonicalize(ir),
                 twice |-> canonicalize(canonicalize(ir))]
    /\ UNCHANGED <<hctx, hres, pin, pres, ir, arr, cache, result, prev>>

\* ScoreIR.from_json(x.to_json())
RoundTrip ==
    /\ irres.op = "none"
    /\ irres' = [op |-> "round_trip", json |-> to_json(ir),
                 out |-> from_json(to_json(ir))]
    /\ UNCHANGED <<hctx, hres, pin, pres, ir, arr, cache, result, prev>>

\* A second ScoreIR holding the same items listed in another order, and
\* the canonical form and JSON of both
Relist ==
    /\ irres.op = "none"
    /\ \E perm \in Permutations(1..Len(ir.notes)), back \in BOOLEAN :
         LET other == [ir EXCEPT
                          !.notes = Reordered(ir.notes, perm),
                          !.sections = IF back THEN Reversed(@) ELSE @,
                          !.tempo_events = IF back THEN Reversed(@) ELSE @,
                          !.layers = IF back THEN Reversed(@) ELSE @]
         IN  irres' = [op |-> "relist", other |-> other,
                       canon |-> canonicalize(ir), other_canon |-> canonicalize(other),
                       json |-> to_json(ir), other_json |-> to_json(other)]
    /\ UNCHANGED <<hctx, hres, pin, pres, ir, arr, cache, result, prev>>

\* a.diff_summary(b) where b is a with the pitch of one note changed
Diff ==
    /\ irres.op = "none"
    /\ \E k \in 1..Len(ir.notes), pitch \in DiffPitches :
         /\ pitch # ir.notes[k].pitch
         /\ LET other == [ir EXCEPT !.notes[k].pitch = pitch]
            IN  irres' = [op |-> "diff", index |-> k, other |-> other,
                          out |-> diff_summary(ir, other)]
    /\ UNCHANGED <<hctx, hres, pin, pres, ir, arr, cache, result, prev>>

NextIR == Canonicalize \/ RoundTrip \/ Relist \/ Diff

SpecIR == InitIR /\ [][NextIR]_vars

----------------------------------------------------------------------------
(* Claims about ScoreIR, checked under SpecIR *)

\* The number of places of the list s that hold x
Occurrences(s, x) == Cardinality({k \in 1..Len(s) : s[k] = x})

\* Two lists hold the same items the same number of times, in any order
SameItems(s, t) ==
    /\ Len(s) = Len(t)
    /\ \A k \in 1..Len(s) : Occurrences(s, s[k]) = Occurrences(t, s[k])

\* C2: from_json(to_json(ir)) reproduces every header field of ir, every
\* section marker, tempo event and layer entry, and every note with all of
\* its fields, the provenance fields source_layer, source_pattern,
\* source_section, bar and beat included.
C2_JsonRoundTrip ==
    irres.op = "round_trip" =>
        /\ irres.out.schema = ir.schema /\ irres.out.name = ir.name
        /\ irres.out.key = ir.key /\ irres.out.tempo = ir.tempo
        /\ irres.out.time_signature = ir.time_signature
        /\ irres.out.ticks_per_beat = ir.ticks_per_beat
        /\ irres.out.total_ticks = ir.total_ticks
        /\ irres.out.total_bars = ir.total_bars
        /\ SameItems(irres.out.sections, ir.sections)
        /\ SameItems(irres.out.tempo_events, ir.tempo_events)
        /\ SameItems(irres.out.layers, ir.layers)
        /\ SameItems(irres.out.notes, ir.notes)

\* C3: canonicalization is idempotent: canonicalize(canonicalize(x)) equals
\* canonicalize(x) field for field, with the same sequence of notes
\* (provenance included), section markers, tempo events and layers.
C3_CanonicalizeIdempotent ==
    irres.op = "canonicalize" => irres.twice = irres.once

\* C3 witness: an IR that canonicalization changes, holding two notes that
\* compare equal and differ in provenance, has been canonicalized twice.
C3_Witness ==
    /\ irres.op = "canonicalize"
    /\ irres.once # ir
    /\ Len(ir.notes) = 2
    /\ IRNoteKey(ir.notes[1]) = IRNoteKey(ir.notes[2])
    /\ ir.notes[1] # ir.notes[2]
    /\ irres.twice = irres.once

\* C4: the canonical form is unique: two ScoreIRs with the same header
\* fields that hold the same notes (with their provenance), section
\* markers, tempo events and layers, listed in any order, canonicalize to
\* the same note sequence and serialize to identical JSON.
C4_CanonicalFormUnique ==
    irres.op = "relist" =>
        /\ irres.other_canon.notes = irres.canon.notes
        /\ irres.other_json = irres.json

\* C5: if two ScoreIRs are identical except that the pitch of exactly one
\* note differs, diff_summary reports notes_added = 1, notes_removed = 1
\* and notes_unchanged = (number of notes) - 1.
C5_DiffOnePitch ==
    irres.op = "diff" =>
        /\ irres.out.notes_added = 1
        /\ irres.out.notes_removed = 1
        /\ irres.out.notes_unchanged = Len(ir.notes) - 1

----------------------------------------------------------------------------
(* patterns/compiler.py: PatternCompiler *)

\* compiler/midi.py
TICKS_PER_BEAT == 480

\* A value of a dynamically typed field: a finite number, a str (its
\* characters), None, or the floats inf and nan.  A duration number counts
\* quarter beats, a velocity number hundredths.
Num(v) == [t |-> "num", v |-> v]
Str(s) == [t |-> "str", v |-> s]
NoneVal == [t |-> "none"]
InfVal == [t |-> "inf"]
NanVal == [t |-> "nan"]

\* `if event.degree:` on a str | None
TruthyStr(o) == o # None /\ Get(o) # <<>>

\* MidiEvent(...): __post_init__ raises on a field out of range
MidiEvent(pitch, start_ticks, duration_ticks, velocity, channel) ==
    IF /\ 0 <= pitch /\ pitch <= 127
       /\ 0 <= velocity /\ velocity <= 127
       /\ 0 <= channel /\ channel <= 15
       /\ start_ticks >= 0
       /\ duration_ticks >= 0
    THEN Ok([pitch |-> pitch, start_ticks |-> start_ticks,
             duration_ticks |-> duration_ticks, velocity |-> velocity,
             channel |-> channel])
    ELSE Err("ValueError")

\* dict.update: d with the entries of e written over it
Update(d, e) ==
    [k \in DOMAIN d \cup DOMAIN e |-> IF k \in DOMAIN e THEN e[k] ELSE d[k]]

\* Pattern.get_resolved_params(variant, overrides): the parameter defaults,
\* then the variant's values, then the overrides
get_resolved_params(pattern, variant, overrides) ==
    LET defaults == pattern.parameters
        varied   == IF Truthy(variant) /\ Get(variant) \in DOMAIN pattern.variants
                    THEN Update(defaults, pattern.variants[Get(variant)])
                    ELSE defaults
    IN  IF DOMAIN overrides # {} THEN Update(varied, overrides) ELSE varied

\* params.get(name, default)
ParamGet(params, name, default) ==
    IF name \in DOMAIN params THEN params[name] ELSE default

\* duration_map of _resolve_duration, in quarter beats
NamedDuration(s) ==
    CASE s = <<"w", "h", "o", "l", "e">> -> Some(16)
      [] s = <<"h", "a", "l", "f">> -> Some(8)
      [] s = <<"q", "u", "a", "r", "t", "e", "r">> -> Some(4)
      [] s = <<"e", "i", "g", "h", "t", "h">> -> Some(2)
      [] s = <<"s", "i", "x", "t", "e", "e", "n", "t", "h">> -> Some(1)
      [] OTHER -> None

\* float(s) for a str that spells a finite number, in quarter beats: an
\* optional sign, digits, and an optional fraction of .0, .5, .25 or .75;
\* anything else raises ValueError.  (Exponents and surrounding white space
\* are not in the modelled inputs; inf and nan are told apart before.)
ParseFloatQ(s) ==
    LET signed == s # <<>> /\ Head(s) \in {"-", "+"}
        body   == IF signed THEN Tail(s) ELSE s
        parts  == Split(body, ".")
        whole  == IF parts[1] = <<>> /\ Len(parts) = 2 /\ parts[2] # <<>>
                  THEN Ok(0) ELSE ParseInt(parts[1])
        frac   == IF Len(parts) = 1 THEN Some(0)
                  ELSE CASE parts[2] \in {<<>>, <<"0">>} -> Some(0)
                         [] parts[2] = <<"5">> -> Some(2)
                         [] parts[2] = <<"2", "5">> -> Some(1)
                         [] parts[2] = <<"7", "5">> -> Some(3)
                         [] OTHER -> None
    IN  IF \/ body = <<>> \/ Head(body) \in {"-", "+"}
           \/ Len(parts) > 2 \/ ~whole.ok \/ IsNone(frac)
        THEN Err("ValueError")
        ELSE Ok((IF signed /\ Head(s) = "-" THEN 0 - 1 ELSE 1)
                * (4 * whole.val + Get(frac)))

\* The strs float() reads as an infinity, and as nan
InfTokens == {<<"i", "n", "f">>, <<"-", "i", "n", "f">>}
NanTokens == {<<"n", "a", "n">>}

\* `int(float(duration) * self.ticks_per_beat)` inside `try: ... except
\* ValueError: return self.ticks_per_beat`, for what params.get returned or
\* the token itself: int() of an infinity raises OverflowError, int() of
\* nan raises ValueError, float(None) raises TypeError
FloatDurationTicks(d, tpb) ==
    CASE d.t = "num" -> Ok(QToTicks(d.v, tpb))
      [] d.t = "none" -> Err("TypeError")
      [] d.t = "inf" -> Err("OverflowError")
      [] d.t = "nan" -> Ok(tpb)
      [] d.t = "str" ->
            IF d.v \in InfTokens THEN Err("OverflowError")
            ELSE IF d.v \in NanTokens THEN Ok(tpb)
            ELSE IF ParseFloatQ(d.v).ok THEN Ok(QToTicks(ParseFloatQ(d.v).val, tpb))
            ELSE Ok(tpb)

\* PatternCompiler._resolve_duration
_resolve_duration(duration, params, tpb) ==
    IF duration.t = "num" THEN Ok(QToTicks(duration.v, tpb))
    ELSE IF duration.t = "inf" THEN Err("OverflowError")
    ELSE IF duration.t = "nan" THEN Err("ValueError")
    ELSE
        LET d == IF StartsWith(duration.v, <<"$">>)
                 THEN ParamGet(params, Tail(duration.v),
                               Str(<<"q", "u", "a", "r", "t", "e", "r">>))
                 ELSE duration
        IN  IF d.t = "str" /\ ~IsNone(NamedDuration(d.v))
                THEN Ok(QToTicks(Get(NamedDuration(d.v)), tpb))
            ELSE FloatDurationTicks(d, tpb)

\* A conversion that rounds to the nearest whole number
VelocityToMidiRounded(v) == Max2(0, Min2(127, (v * 127 + 50) \div 100))

\* `max(0, min(127, int(float(velocity) * 127)))`, velocity in hundredths
VelocityToMidi(v) == Max2(0, Min2(127, (v * 127) \div 100))

\* PatternCompiler._resolve_velocity
_resolve_velocity(velocity, params) ==
    LET v == IF velocity.t = "str" /\ StartsWith(velocity.v, <<"$">>)
             THEN ParamGet(params, Tail(velocity.v), Num(80))
             ELSE velocity
    IN  CASE v.t = "num" -> Ok(VelocityToMidi(v.v))
          [] v.t = "inf" -> Err("OverflowError")
          [] v.t = "nan" -> Err("ValueError")
          [] OTHER -> Ok(100)

\* A value returned where the caller tells None from a value: the error of
\* r, or Some of what r holds
SomeOk(r) == IF r.ok THEN Ok(Some(r.val)) ELSE r

\* `if pattern.pitched and event.degree: ... elif event.note is not None:
\* ... else: pitch = None` of _compile_event
EventPitch(event, pattern, context, beat_position) ==
    IF pattern.pitched /\ TruthyStr(event.degree)
    THEN SomeOk(resolve_degree(context.harmony, Get(event.degree), beat_position,
                               context.time_sig, context.role, event.octave_shift))
    ELSE IF event.note # None THEN Ok(Some(Get(event.note)))
    ELSE Ok(None)

\* The end of _compile_event, given the start, the duration and the pitch
\* it has resolved: `if pitch is None: return None`, then the velocity and
\* the MidiEvent
EventOf(event, context, params, start_ticks, duration, pitch) ==
    IF ~duration.ok THEN duration
    ELSE IF ~pitch.ok THEN pitch
    ELSE IF IsNone(pitch.val) THEN Ok(None)
    ELSE IF ~_resolve_velocity(event.velocity, params).ok
         THEN _resolve_velocity(event.velocity, params)
    ELSE SomeOk(MidiEvent(Get(pitch.val), start_ticks, duration.val,
                          _resolve_velocity(event.velocity, params).val,
                          context.channel))

\* PatternCompiler._compile_event: Ok(Some(event)), Ok(None) for an event
\* without pitch, or the error raised
_compile_event(event, pattern, context, params, bar_offset, tpb) ==
    IF bar_offset < 0 \/ event.beat < 0 THEN Err("ValueError")
    ELSE LET beat_position == [bar |-> bar_offset, beatQ |-> event.beat]
         IN  EventOf(event, context, params,
                     position_to_ticks(beat_position, context.time_sig, tpb),
                     _resolve_duration(event.duration, params, tpb),
                     EventPitch(event, pattern, context, beat_position))

\* `if midi_event: events.append(midi_event)`: the outcome e of one event in
\* front of the outcome of the events after it
Appended(e, rest) ==
    IF ~e.ok THEN e
    ELSE IF ~rest.ok THEN rest
    ELSE Ok((IF IsNone(e.val) THEN <<>> ELSE <<Get(e.val)>>) \o rest.val)

\* The events of one pass over the template, from the k-th event on
RECURSIVE IterationFrom(_, _, _, _, _, _)
IterationFrom(k, pattern, context, params, bar_offset, tpb) ==
    IF k > Len(pattern.template.events) THEN Ok(<<>>)
    ELSE Appended(_compile_event(pattern.template.events[k], pattern, context,
                                 params, bar_offset, tpb),
                  IterationFrom(k + 1, pattern, context, params, bar_offset, tpb))

\* PatternCompiler._compile_iteration
_compile_iteration(pattern, context, params, bar_offset, tpb) ==
    IterationFrom(1, pattern, context, params, bar_offset, tpb)

\* A loop test that lets the iteration starting at bar `bars` through
LoopTestInclusive(current_bar, bars) == current_bar <= bars

\* `while current_bar < bars:`
LoopTest(current_bar, bars) == current_bar < bars

\* A stop test that never stops
StopTestNever(loop) == FALSE

\* `if not pattern.template.loop: break`
StopTest(loop) == ~loop

\* The while loop of PatternCompiler.compile, entered with current_bar and
\* the events collected so far
RECURSIVE CompileLoop(_, _, _, _, _, _, _)

\* The body of the loop, given the events of the iteration it compiled
LoopBody(pattern, context, params, bars, tpb, current_bar, events, pattern_events) ==
    IF ~pattern_events.ok THEN pattern_events
    ELSE IF StopTest(pattern.template.loop) THEN Ok(events \o pattern_events.val)
    ELSE CompileLoop(pattern, context, params, bars, tpb,
                     current_bar + pattern.template.bars, events \o pattern_events.val)

CompileLoop(pattern, context, params, bars, tpb, current_bar, events) ==
    IF ~LoopTest(current_bar, bars) THEN Ok(events)
    ELSE LoopBody(pattern, context, params, bars, tpb, current_bar, events,
                  _compile_iteration(pattern, context, params,
                                     current_bar + context.bar_offset, tpb))

\* `context.params or pattern.get_resolved_params()`
CompileParams(pattern, context) ==
    IF IsNone(context.params) \/ DOMAIN Get(context.params) = {}
    THEN get_resolved_params(pattern, None, <<>>)
    ELSE Get(context.params)

\* PatternCompiler.compile, the compiler built with ticks_per_beat = tpb
compile(pattern, context, bars, tpb) ==
    CompileLoop(pattern, context, CompileParams(pattern, context), bars, tpb, 0, <<>>)

----------------------------------------------------------------------------
(* PatternCompiler.compile: the inputs and the specification SpecPattern *)

MaxPatternBars == 2    \* a template spans 1..MaxPatternBars bars
MaxOffset == 1         \* context.bar_offset lies in 0..MaxOffset
MaxCompileBars == 3    \* compile is asked for 0..MaxCompileBars bars

\* PatternEvent(...)
PatternEvent(beat, duration, degree, note, velocity, octave_shift) ==
    [beat |-> beat, duration |-> duration, degree |-> degree, note |-> note,
     velocity |-> velocity, octave_shift |-> octave_shift]

\* Template event lists.  The degree specs are ones resolve_degree resolves.
\* Four pitched events on the beats of a 4/4 bar
EventsBass ==
    << PatternEvent(0, Str(<<"q", "u", "a", "r", "t", "e", "r">>), Some(<<"c", "h", "o", "r", "d", ".", "r", "o", "o", "t">>), None, Num(80), 0),
       PatternEvent(4, Num(2), Some(<<"c", "h", "o", "r", "d", ".", "f", "i", "f", "t", "h">>), None, Str(<<"$", "v", "e", "l">>), 0),
       PatternEvent(8, Str(<<"$", "l", "e", "n">>), Some(<<"5">>), None, Num(100), 1),
       PatternEvent(12, Str(<<"0", ".", "5">>), Some(<<"c", "h", "o", "r", "d", ".", "t", "h", "i", "r", "d">>), None, Str(<<"l", "o", "u", "d">>), 0) >>

\* Two events a bar apart
EventsPhrase ==
    << PatternEvent(0, Str(<<"h", "a", "l", "f">>), Some(<<"c", "h", "o", "r", "d", ".", "r", "o", "o", "t">>), None, Num(90), 0),
       PatternEvent(20, Str(<<"b", "o", "g", "u", "s">>), Some(<<"s", "c", "a", "l", "e", ".", "3">>), Some(40), Num(50), 0 - 1) >>

\* Four drum hits
EventsDrums ==
    << PatternEvent(0, Num(1), None, Some(36), Num(100), 0),
       PatternEvent(2, Num(1), None, Some(42), Num(60), 0),
       PatternEvent(4, Num(1), None, Some(38), Num(127), 0),
       PatternEvent(6, Num(1), None, Some(42), Str(<<"$", "v", "e", "l">>), 0) >>

\* Four events of which one has no pitch and two an empty degree
EventsMixed ==
    << PatternEvent(0, Str(<<"e", "i", "g", "h", "t", "h">>), Some(<<"r", "o", "o", "t">>), None, Num(80), 0),
       PatternEvent(4, Str(<<"e", "i", "g", "h", "t", "h">>), None, None, Num(80), 0),
       PatternEvent(8, Str(<<"e", "i", "g", "h", "t", "h">>), Some(<<>>), None, Num(80), 0),
       PatternEvent(10, Str(<<"e", "i", "g", "h", "t", "h">>), Some(<<>>), Some(60), Num(80), 0) >>

\* Events that name no pitch
EventsSilent ==
    << PatternEvent(0, Str(<<"q", "u", "a", "r", "t", "e", "r">>), None, None, Num(80), 0),
       PatternEvent(4, Str(<<"q", "u", "a", "r", "t", "e", "r">>), Some(<<>>), None, Num(80), 0) >>

PEventLists == {EventsBass, EventsPhrase, EventsDrums, EventsMixed, <<>>}

\* Pattern.parameters as name -> default: a length and a velocity
ParametersLenVel ==
    [n \in {<<"l", "e", "n">>, <<"v", "e", "l">>} |-> IF n = <<"l", "e", "n">> THEN Str(<<"s", "i", "x", "t", "e", "e", "n", "t", "h">>) ELSE Num(70)]

\* Pattern.parameters: none, or a length and a velocity
PParameters == {<<>>, ParametersLenVel}

\* CompileContext.params: not given; given empty; given with a length only
PContextParams ==
    { None, Some(<<>>), Some([n \in {<<"l", "e", "n">>} |-> Num(6)]) }

Patterns ==
    { [pitched |-> pitched,
       template |-> [bars |-> bars, loop |-> loop, events |-> events],
       parameters |-> parameters, variants |-> <<>>] :
        pitched \in BOOLEAN, bars \in 1..MaxPatternBars, loop \in BOOLEAN,
        events \in PEventLists, parameters \in PParameters }

\* The harmony of the contexts: D minor, i VI III VII, one chord per bar
PHarmony ==
    [key |-> [root |-> 2, scale |-> "natural_minor"],
     progression |-> << <<"i">>, <<"V", "I">>, <<"I", "I", "I">>, <<"V", "I", "I">> >>,
     harmonic_rhythm |-> 16]

CompileContexts ==
    { [key |-> PHarmony.key, tempo |-> 120, time_sig |-> ts, harmony |-> PHarmony,
       role |-> role, channel |-> 0, bar_offset |-> off, params |-> params] :
        ts \in TimeSigs, role \in {"bass", "melody"}, off \in 0..MaxOffset,
        params \in PContextParams }

InitPattern ==
    /\ pin \in [pattern : Patterns, context : CompileContexts,
                bars : 0..MaxCompileBars, ticks_per_beat : {TICKS_PER_BEAT, 96}]
    /\ pres = [op |-> "none"]
    /\ hctx = Idle /\ hres = Idle /\ ir = Idle /\ irres = Idle
    /\ arr = Idle /\ cache = Idle /\ result = Idle /\ prev = Idle

\* A call of PatternCompiler(ticks_per_beat).compile(pattern, context, bars)
CompilePattern ==
    /\ pres.op = "none"
    /\ pres' = [op |-> "compile",
                out |-> compile(pin.pattern, pin.context, pin.bars, pin.ticks_per_beat)]
    /\ UNCHANGED <<hctx, hres, pin, ir, irres, arr, cache, result, prev>>

NextPattern == CompilePattern

SpecPattern == InitPattern /\ [][NextPattern]_vars

----------------------------------------------------------------------------
(* Claims about PatternCompiler.compile, checked under SpecPattern *)

\* The events of the template that name a pitch: a degree in a pitched
\* pattern, or an absolute note
SoundingEvents(pattern) ==
    LET Sounds(e) == (pattern.pitched /\ TruthyStr(e.degree)) \/ e.note # None
    IN  SelectSeq(pattern.template.events, Sounds)

\* The notes pres.out holds are `count` iterations of the template, the
\* k-th (from 0) placed at bar context.bar_offset + k * template.bars
IterationsEmitted(count) ==
    LET snd == SoundingEvents(pin.pattern)
        E   == Len(snd)
        bt  == bar_to_ticks(pin.context.time_sig, pin.ticks_per_beat)
    IN  /\ pres.out.ok
        /\ Len(pres.out.val) = count * E
        /\ \A k \in 0..(count - 1), j \in 1..E :
             pres.out.val[k * E + j].start_ticks =
                 (pin.context.bar_offset + k * pin.pattern.template.bars) * bt
                 + QToTicks(snd[j].beat, pin.ticks_per_beat)

\* The template has four events, each naming a pitch at a beat inside one bar
FourEventsInOneBar ==
    /\ pin.pattern.template.bars = 1
    /\ Len(pin.pattern.template.events) = 4
    /\ Len(SoundingEvents(pin.pattern)) = 4
    /\ \A j \in 1..4 : pin.pattern.template.events[j].beat
                         < pin.context.time_sig.unitQ * pin.context.time_sig.beats_per_bar

\* C8: for a looping pattern whose template spans P bars, compile(pattern,
\* context, bars) emits one iteration of the template at each bar offset
\* context.bar_offset + k*P, k = 0, 1, 2, ... while k*P < bars, and nothing
\* else; a 1-bar looping pattern with 4 events compiled for 2 bars yields
\* exactly 8 notes, the first 4 in the first bar and the last 4 in the next.
C8_LoopingIterations ==
    (pres.op = "compile" /\ pin.pattern.template.loop) =>
        LET P   == pin.pattern.template.bars
            bt  == bar_to_ticks(pin.context.time_sig, pin.ticks_per_beat)
            off == pin.context.bar_offset
        IN  /\ IterationsEmitted(Cardinality({k \in 0..pin.bars : k * P < pin.bars}))
            /\ (FourEventsInOneBar /\ pin.bars = 2) =>
                 /\ Len(pres.out.val) = 8
                 /\ \A j \in 1..4 :
                      /\ pres.out.val[j].start_ticks \div bt = off
                      /\ pres.out.val[4 + j].start_ticks \div bt = off + 1

\* C8 witness: a 1-bar looping pattern with 4 events compiled for 2 bars
\* from bar 0 has yielded 8 notes, the fifth at the start of bar 1.
C8_Witness ==
    /\ pres.op = "compile" /\ pin.pattern.template.loop
    /\ FourEventsInOneBar /\ pin.bars = 2 /\ pin.context.bar_offset = 0
    /\ pres.out.ok /\ Len(pres.out.val) = 8
    /\ pres.out.val[4].start_ticks < bar_to_ticks(pin.context.time_sig, pin.ticks_per_beat)
    /\ pres.out.val[5].start_ticks = bar_to_ticks(pin.context.time_sig, pin.ticks_per_beat)

\* C9 as stated: if the template does not loop, compile emits exactly one
\* iteration of the template, whatever the value of bars.
C9_NonLoopingOneIteration ==
    (pres.op = "compile" /\ ~pin.pattern.template.loop) => IterationsEmitted(1)

\* C9 as amended: if the template does not loop, compile emits exactly one
\* iteration of the template for every bars >= 1, and none for bars <= 0.
C9_NonLoopingOneIterationFromOneBar ==
    (pres.op = "compile" /\ ~pin.pattern.template.loop) =>
        IterationsEmitted(IF pin.bars >= 1 THEN 1 ELSE 0)

\* C9 witness: a non-looping 1-bar pattern with 4 sounding events compiled
\* for 3 bars has yielded 4 notes.
C9_Witness ==
    /\ pres.op = "compile" /\ ~pin.pattern.template.loop
    /\ pin.pattern.template.bars = 1 /\ pin.bars = 3
    /\ Len(SoundingEvents(pin.pattern)) = 4
    /\ pres.out.ok /\ Len(pres.out.val) = 4

\* The velocity the template event gives as a literal in [0.0, 1.0] or as a
\* "$name" reference to a parameter holding one, in hundredths; None when
\* it gives neither
GivenVelocity(event, params) ==
    LET v == IF event.velocity.t = "str" /\ StartsWith(event.velocity.v, <<"$">>)
             THEN IF Tail(event.velocity.v) \in DOMAIN params
                  THEN params[Tail(event.velocity.v)] ELSE NoneVal
             ELSE event.velocity
    IN  IF v.t = "num" /\ 0 <= v.v /\ v.v <= 100 THEN Some(v.v) ELSE None

\* The template event the n-th compiled event comes from
TemplateEventOf(n) ==
    SoundingEvents(pin.pattern)[((n - 1) % Len(SoundingEvents(pin.pattern))) + 1]

\* Every compiled event whose template event gives a velocity v has the
\* MIDI velocity (v * 127 + add) / 100, whole part, clamped to [0,127]
VelocitiesAre(add) ==
    \A n \in 1..Len(pres.out.val) :
        LET given == GivenVelocity(TemplateEventOf(n),
                                   CompileParams(pin.pattern, pin.context))
        IN  given # None =>
                pres.out.val[n].velocity
                    = Max2(0, Min2(127, (Get(given) * 127 + add) \div 100))

\* C12 as stated: a pattern-event velocity given as a literal float v in
\* [0.0, 1.0], or as a "$name" reference to a parameter holding such a
\* value, compiles to the MIDI velocity round(v x 127), clamped to [0,127].
C12_VelocityRounded ==
    (pres.op = "compile" /\ pres.out.ok) => VelocitiesAre(50)

\* C12 as amended: such a velocity compiles to the MIDI velocity
\* int(v x 127), the product truncated to its whole part, clamped to
\* [0,127].
C12_VelocityTruncated ==
    (pres.op = "compile" /\ pres.out.ok) => VelocitiesAre(0)

\* C12 witness: a compile has returned events from the bass template with
\* its parameters: the literal 0.8 has become 101 (0.8 x 127 = 101.6) and
\* the reference "$vel" to the parameter 0.7 has become 88 (88.9).
C12_Witness ==
    /\ pres.op = "compile" /\ pres.out.ok
    /\ Len(pres.out.val) >= 2
    /\ pin.pattern.template.events = EventsBass
    /\ Len(SoundingEvents(pin.pattern)) = 4
    /\ GivenVelocity(TemplateEventOf(1), CompileParams(pin.pattern, pin.context))
           = Some(80)
    /\ pres.out.val[1].velocity = 101
    /\ GivenVelocity(TemplateEventOf(2), CompileParams(pin.pattern, pin.context))
           = Some(70)
    /\ pres.out.val[2].velocity = 88

----------------------------------------------------------------------------
(* PatternCompiler._compile_event on duration and velocity tokens: the *)
(* specification SpecEvent                                              *)

\* The duration tokens of the events: beats as a number, names of the
\* duration map, numerals, words float() rejects, the spellings of inf and
\* nan, a reference to the parameter "len"
DurationTokens ==
    << Num(2), Str(<<"h", "a", "l", "f">>), Str(<<"0", ".", "5">>), Str(<<"-", "1">>),
       Str(<<"b", "o", "g", "u", "s">>), Str(<<>>), Str(<<"1", ".", "2", ".", "3">>),
       Str(<<"n", "a", "n">>), Str(<<"i", "n", "f">>), Str(<<"$", "l", "e", "n">>),
       Str(<<"$">>) >>

\* The velocity tokens: a float in and out of [0, 1], words, a numeral, a
\* reference to the parameter "vel"
VelocityTokens ==
    << Num(50), Num(200), Str(<<"l", "o", "u", "d">>), Str(<<"0", ".", "5">>),
       Str(<<"i", "n", "f">>), Str(<<"$", "v", "e", "l">>) >>

\* What a parameter may hold (dict[str, Any]): numbers, strs, None (a
\* PatternParameter declared without a default), the floats inf and nan
ParameterValues ==
    << Num(2), Num(50), Str(<<"e", "i", "g", "h", "t", "h">>), Str(<<"0", ".", "5">>),
       Str(<<"b", "o", "g", "u", "s">>), Str(<<"i", "n", "f">>), NoneVal, InfVal, NanVal >>

\* The resolved parameters: none (p = 0), or the p-th value under both names
TokenParams(p) ==
    IF p = 0 THEN <<>>
    ELSE [n \in {<<"l", "e", "n">>, <<"v", "e", "l">>} |-> ParameterValues[p]]

\* The drum pattern and the context the event is compiled in
TokenPattern ==
    [pitched |-> FALSE, template |-> [bars |-> 1, loop |-> TRUE, events |-> <<>>],
     parameters |-> <<>>, variants |-> <<>>]

TokenContext ==
    [key |-> PHarmony.key, tempo |-> 120, time_sig |-> TimeSig(4, 4),
     harmony |-> PHarmony, role |-> "drums", channel |-> 9, bar_offset |-> 0,
     params |-> None]

InitEvent ==
    /\ \E d \in 1..Len(DurationTokens), v \in 1..Len(VelocityTokens),
          p \in 0..Len(ParameterValues), tpb \in {TICKS_PER_BEAT, 96} :
         pin = [event |-> PatternEvent(0, DurationTokens[d], None, Some(36),
                                       VelocityTokens[v], 0),
                params |-> TokenParams(p), ticks_per_beat |-> tpb]
    /\ pres = [op |-> "none"]
    /\ hctx = Idle /\ hres = Idle /\ ir = Idle /\ irres = Idle
    /\ arr = Idle /\ cache = Idle /\ result = Idle /\ prev = Idle

\* A call of PatternCompiler(ticks_per_beat)._compile_event(event, ...)
CompileEvent ==
    /\ pres.op = "none"
    /\ pres' = [op |-> "_compile_event",
                out |-> _compile_event(pin.event, TokenPattern, TokenContext,
                                       pin.params, 0, pin.ticks_per_beat)]
    /\ UNCHANGED <<hctx, hres, pin, ir, irres, arr, cache, result, prev>>

NextEvent == CompileEvent

SpecEvent == InitEvent /\ [][NextEvent]_vars

\* What the token stands for: the value of the parameter a "$name" token
\* refers to (None for a parameter that is not there), or the token itself
Referred(token, params) ==
    IF token.t = "str" /\ StartsWith(token.v, <<"$">>)
    THEN IF Tail(token.v) \in DOMAIN params THEN Some(params[Tail(token.v)]) ELSE None
    ELSE Some(token)

\* The duration cannot be parsed: it is no number, no name of the duration
\* map and no str that spells a finite number
DurationUnparseable(token, params) ==
    \E k \in 1..Len(Referred(token, params)) : \E d \in {Referred(token, params)[k]} :
        \/ d.t \in {"none", "inf", "nan"}
        \/ /\ d.t = "str"
           /\ IsNone(NamedDuration(d.v))
           /\ (d.v \in InfTokens \cup NanTokens \/ ~ParseFloatQ(d.v).ok)

\* The velocity cannot be parsed: it is no finite number
VelocityUnparseable(token, params) ==
    \E k \in 1..Len(Referred(token, params)) : Referred(token, params)[k].t # "num"

\* C27: a pattern event whose duration or velocity token cannot be parsed
\* never makes compilation raise, whatever the token or the value of the
\* parameter it refers to: the duration falls back to one quarter note
\* (ticks_per_beat ticks) and the velocity falls back to 100.
C27_UnparseableTokensFallBack ==
    (pres.op = "_compile_event") =>
        /\ (\/ DurationUnparseable(pin.event.duration, pin.params)
            \/ VelocityUnparseable(pin.event.velocity, pin.params))
           => pres.out.ok
        /\ (pres.out.ok /\ DurationUnparseable(pin.event.duration, pin.params))
           => Get(pres.out.val).duration_ticks = pin.ticks_per_beat
        /\ (pres.out.ok /\ VelocityUnparseable(pin.event.velocity, pin.params))
           => Get(pres.out.val).velocity = 100

----------------------------------------------------------------------------
(* compiler/midi.py: events_to_midi *)

\* `messages.append((event.start_ticks, note_on))` and
\* `messages.append((event.start_ticks + event.duration_ticks, note_off))`
\* for each event: the (absolute time, message) pairs
NoteMessages(events) ==
    [k \in 1..(2 * Len(events)) |->
        LET e == events[(k + 1) \div 2]
        IN  IF k % 2 = 1
            THEN <<e.start_ticks,
                   [type |-> "note_on", channel |-> e.channel, note |-> e.pitch,
                    velocity |-> e.velocity]>>
            ELSE <<e.start_ticks + e.duration_ticks,
                   [type |-> "note_off", channel |-> e.channel, note |-> e.pitch,
                    velocity |-> 0]>>]

\* A sort on the absolute time alone
SortMessagesByTimeOnly(messages) ==
    Sorted(messages, [k \in 1..Len(messages) |-> <<messages[k][1]>>])

\* `messages.sort(key=lambda x: (x[0], x[1].type != "note_off"))`
SortMessages(messages) ==
    Sorted(messages,
           [k \in 1..Len(messages) |->
               <<messages[k][1], IF messages[k][2].type # "note_off" THEN 1 ELSE 0>>])

\* Records that carry their absolute time in place of the delta
AbsoluteTimes(sorted) ==
    [k \in 1..Len(sorted) |-> [msg |-> sorted[k][2], time |-> sorted[k][1]]]

\* `delta = abs_time - current_time; msg.time = delta; track.append(msg)`
DeltaTimes(sorted) ==
    [k \in 1..Len(sorted) |->
        [msg |-> sorted[k][2],
         time |-> sorted[k][1] - (IF k = 1 THEN 0 ELSE sorted[k - 1][1])]]

\* A tempo value rounded up to the next microsecond
TempoUsRoundedUp(tempo_bpm) == (60000000 + tempo_bpm - 1) \div tempo_bpm

\* `tempo_us = int(60_000_000 / tempo_bpm)`, for a tempo_bpm > 0 (the double
\* quotient of two such integers truncates to their integer quotient)
TempoUs(tempo_bpm) == 60000000 \div tempo_bpm

\* events_to_midi: the MidiFile as its resolution and the messages of its
\* one track, each with its delta time (mido writes the bytes of the file
\* from exactly these)
events_to_midi(events, tempo_bpm, ticks_per_beat) ==
    [ticks_per_beat |-> ticks_per_beat,
     track |-> <<[msg |-> [type |-> "set_tempo", tempo |-> TempoUs(tempo_bpm)],
                  time |-> 0]>>
               \o DeltaTimes(SortMessages(NoteMessages(events)))
               \o <<[msg |-> [type |-> "end_of_track"], time |-> 0]>>]

----------------------------------------------------------------------------
(* events_to_midi: the inputs and the specification SpecMidi *)

MaxEvents == 3    \* events_to_midi is given 0..MaxEvents events

\* The events given: two pitches, starting on a beat or half a beat after
\* it, lasting no time or half a beat
GivenEvents ==
    { MidiEvent(pitch, start_ticks, duration_ticks, 100, 0).val :
        pitch \in {60, 62}, start_ticks \in {0, 240}, duration_ticks \in {0, 240} }

\* The event lists given, in every order
GivenEventLists ==
    UNION { [1..n -> GivenEvents] : n \in 0..MaxEvents }

\* The tempos given, in beats per minute
GivenTempos == {7, 60, 120, 124, 300}

InitMidi ==
    /\ pin \in [events : GivenEventLists, tempo_bpm : GivenTempos,
                 ticks_per_beat : {TICKS_PER_BEAT}]
    /\ pres = [op |-> "none"]
    /\ hctx = Idle /\ hres = Idle /\ ir = Idle /\ irres = Idle
    /\ arr = Idle /\ cache = Idle /\ result = Idle /\ prev = Idle

\* A call of events_to_midi(events, tempo_bpm, ticks_per_beat)
EventsToMidi ==
    /\ pres.op = "none"
    /\ pres' = [op |-> "events_to_midi",
                out |-> events_to_midi(pin.events, pin.tempo_bpm, pin.ticks_per_beat)]
    /\ UNCHANGED <<hctx, hres, pin, ir, irres, arr, cache, result, prev>>

NextMidi == EventsToMidi

SpecMidi == InitMidi /\ [][NextMidi]_vars

----------------------------------------------------------------------------
(* Claims about events_to_midi, checked under SpecMidi *)

\* C16: every encoded track begins with exactly one tempo meta-event, at
\* tick 0, whose value is floor(60,000,000 / tempoBpm) microseconds per
\* beat (500000 at 120 BPM); no other tempo event is emitted.
C16_OneTempoEventAtTickZero ==
    (pres.op = "events_to_midi") =>
        /\ pres.out.track[1].msg.type = "set_tempo"
        /\ pres.out.track[1].time = 0
        /\ pres.out.track[1].msg.tempo * pin.tempo_bpm <= 60000000
        /\ 60000000 < (pres.out.track[1].msg.tempo + 1) * pin.tempo_bpm
        /\ (pin.tempo_bpm = 120) => pres.out.track[1].msg.tempo = 500000
        /\ \A k \in 2..Len(pres.out.track) : pres.out.track[k].msg.type # "set_tempo"

\* C16 witness: three events have been encoded at 7 BPM, a tempo that does
\* not divide 60,000,000: the track begins with the tempo 8571428.
C16_Witness ==
    /\ pres.op = "events_to_midi"
    /\ pin.tempo_bpm = 7 /\ Len(pin.events) = 3
    /\ Len(pres.out.track) = 8
    /\ pres.out.track[1].msg = [type |-> "set_tempo", tempo |-> 8571428]

\* The absolute tick of the k-th record of a track
AbsoluteTick(track, k) == SumSeq([m \in 1..k |-> track[m].time])

\* The note records of a track, each as <<absolute tick, message>>
NoteRecords(track) ==
    [k \in 1..(Len(track) - 2) |-> <<AbsoluteTick(track, k + 1), track[k + 1].msg>>]

\* C17: in the encoded track the note records (the note-on and the
\* note-off of every input event, at its start and at its end) appear in
\* non-decreasing absolute-tick order whatever the order of the input
\* events, and among records with the same absolute tick every note-off
\* precedes every note-on.
C17_NoteRecordsOrdered ==
    (pres.op = "events_to_midi") =>
        /\ SameItems(NoteRecords(pres.out.track), NoteMessages(pin.events))
        /\ \A k \in 1..Len(pres.out.track) : pres.out.track[k].time >= 0
        /\ \A k, m \in 1..Len(NoteRecords(pres.out.track)) :
              (/\ k < m
               /\ NoteRecords(pres.out.track)[k][1] = NoteRecords(pres.out.track)[m][1])
              => ~(/\ NoteRecords(pres.out.track)[k][2].type = "note_on"
                   /\ NoteRecords(pres.out.track)[m][2].type = "note_off")

\* C17 witness: the events were given latest first, the second ending at
\* the tick where the first starts: the track has the note-off of the
\* second before the note-on of the first, both at tick 240.
C17_Witness ==
    /\ pres.op = "events_to_midi"
    /\ Len(pin.events) = 2
    /\ pin.events[1].start_ticks = 240 /\ pin.events[1].pitch = 60
    /\ pin.events[2].start_ticks = 0 /\ pin.events[2].duration_ticks = 240
    /\ pin.events[2].pitch = 62
    /\ NoteRecords(pres.out.track)[2]
           = <<240, [type |-> "note_off", channel |-> 0, note |-> 62, velocity |-> 0]>>
    /\ NoteRecords(pres.out.track)[3]
           = <<240, [type |-> "note_on", channel |-> 0, note |-> 60, velocity |-> 100]>>

\* The note-on and the note-off the track should hold for an event
NoteOnOf(e) ==
    <<e.start_ticks,
      [type |-> "note_on", channel |-> e.channel, note |-> e.pitch,
       velocity |-> e.velocity]>>

NoteOffOf(e) ==
    <<e.start_ticks + e.duration_ticks,
      [type |-> "note_off", channel |-> e.channel, note |-> e.pitch, velocity |-> 0]>>

\* C24: for every input note event the encoded track contains exactly one
\* note-on and one note-off for it, and the note-on comes before its own
\* note-off in the track; no note's note-off is emitted ahead of the
\* note-on it closes, notes of duration 0 ticks included.
C24_NoteOnBeforeItsNoteOff ==
    (pres.op = "events_to_midi") =>
        /\ SameItems(NoteRecords(pres.out.track), NoteMessages(pin.events))
        /\ \A i \in 1..Len(pin.events) :
              \E k, m \in 1..Len(NoteRecords(pres.out.track)) :
                  /\ k < m
                  /\ NoteRecords(pres.out.track)[k] = NoteOnOf(pin.events[i])
                  /\ NoteRecords(pres.out.track)[m] = NoteOffOf(pin.events[i])

\* C28: in the encoded track every delta time is non-negative and equals
\* the record's absolute tick minus the previous record's absolute tick (0
\* before the first record), so the running sum of the deltas at each note
\* record equals its absolute tick (the start for a note-on, start +
\* duration for a note-off), and the end-of-track marker is the last
\* message.
C28_DeltasSumToAbsoluteTicks ==
    (pres.op = "events_to_midi") =>
        \E track \in {pres.out.track} :
        \E sorted \in {SortMessages(NoteMessages(pin.events))} :
            /\ Len(track) = Len(sorted) + 2
            /\ \A k \in 1..Len(track) : track[k].time >= 0
            /\ \A k \in 1..Len(sorted) :
                  /\ track[k + 1].msg = sorted[k][2]
                  /\ track[k + 1].time
                         = sorted[k][1] - (IF k = 1 THEN 0 ELSE sorted[k - 1][1])
                  /\ AbsoluteTick(track, k + 1) = sorted[k][1]
            /\ SameItems(NoteRecords(track), NoteMessages(pin.events))
            /\ track[Len(track)].msg.type = "end_of_track"
            /\ \A k \in 1..(Len(track) - 1) : track[k].msg.type # "end_of_track"

\* C28 witness: three events starting at ticks 240, 0 and 240 and lasting
\* 240 ticks have been encoded: the deltas are 0, 240, 0, 0, 240, 0 and
\* the last note-off stands at tick 480, before the end of the track.
C28_Witness ==
    /\ pres.op = "events_to_midi"
    /\ Len(pin.events) = 3
    /\ [k \in 1..3 |-> pin.events[k].start_ticks] = <<240, 0, 240>>
    /\ \A k \in 1..3 : pin.events[k].duration_ticks = 240
    /\ [k \in 2..7 |-> pres.out.track[k].time]
           = [k \in 2..7 |-> <<0, 0, 240, 0, 0, 240, 0>>[k]]
    /\ AbsoluteTick(pres.out.track, 7) = 480
    /\ pres.out.track[7].msg.type = "note_off"
    /\ pres.out.track[8].msg.type = "end_of_track"

----------------------------------------------------------------------------
(* patterns/registry.py: PatternRegistry *)

\* The pattern files of the library, by pattern id (the fixed pattern set)
Library ==
    [id \in {"bass/root-pulse", "drums/four", "melody/phrase", "fx/silent"} |->
        CASE id = "bass/root-pulse" ->
                [pitched |-> TRUE,
                 template |-> [bars |-> 1, loop |-> TRUE, events |-> EventsBass],
                 parameters |-> ParametersLenVel,
                 variants |-> [v \in {"soft"} |->
                                  [n \in {<<"v", "e", "l">>} |-> Num(50)]]]
          [] id = "drums/four" ->
                [pitched |-> FALSE,
                 template |-> [bars |-> 1, loop |-> TRUE, events |-> EventsDrums],
                 parameters |-> <<>>, variants |-> <<>>]
          [] id = "melody/phrase" ->
                [pitched |-> TRUE,
                 template |-> [bars |-> 2, loop |-> FALSE, events |-> EventsPhrase],
                 parameters |-> <<>>, variants |-> <<>>]
          [] id = "fx/silent" ->
                [pitched |-> TRUE,
                 template |-> [bars |-> 1, loop |-> TRUE, events |-> EventsSilent],
                 parameters |-> <<>>, variants |-> <<>>]]

\* A loader that answers an id it does not know with the drum pattern
_load_pattern_with_fallback(pattern_id) ==
    IF pattern_id \in DOMAIN Library THEN Some(Library[pattern_id])
    ELSE Some(Library["drums/four"])

\* PatternRegistry._load_pattern
_load_pattern(pattern_id) ==
    IF pattern_id \in DOMAIN Library THEN Some(Library[pattern_id]) ELSE None

\* A lookup that finds nothing under an id that is already cached
get_pattern_miss_on_hit(c, pattern_id) ==
    IF pattern_id \in DOMAIN c THEN [pattern |-> None, cache |-> c]
    ELSE [pattern |-> _load_pattern(pattern_id),
          cache |-> IF IsNone(_load_pattern(pattern_id)) THEN c
                    ELSE Update(c, [k \in {pattern_id} |-> Library[pattern_id]])]

\* PatternRegistry.get_pattern on the cache c: the pattern returned and
\* the cache left behind
get_pattern(c, pattern_id) ==
    IF pattern_id \in DOMAIN c THEN [pattern |-> Some(c[pattern_id]), cache |-> c]
    ELSE [pattern |-> _load_pattern(pattern_id),
          cache |-> IF IsNone(_load_pattern(pattern_id)) THEN c
                    ELSE Update(c, [k \in {pattern_id} |-> Get(_load_pattern(pattern_id))])]

----------------------------------------------------------------------------
(* models/arrangement.py and compiler/arranger.py: ArrangementCompiler *)

\* Key.parse, for the key names the model uses
KeyParse(name) ==
    CASE name = "D_minor" -> [root |-> 2, scale |-> "natural_minor"]
      [] name = "C_major" -> [root |-> 0, scale |-> "major"]

\* TimeSignature.parse of a notation the ArrangementContext validator accepted
TimeSignatureParse(notation) ==
    LET parts == Split(notation, "/")
        denominator == ParseInt(parts[2]).val
    IN  TimeSig(ParseInt(parts[1]).val,
                CASE denominator = 1 -> 16
                  [] denominator = 2 -> 8
                  [] denominator = 4 -> 4
                  [] denominator = 8 -> 2
                  [] denominator = 16 -> 1)

\* IRTimeSignature.from_time_sig
from_time_sig(ts) ==
    [numerator |-> ts.beats_per_bar,
     denominator |-> CASE ts.unitQ = 16 -> 1
                       [] ts.unitQ = 8 -> 2
                       [] ts.unitQ = 4 -> 4
                       [] ts.unitQ = 2 -> 8
                       [] ts.unitQ = 1 -> 16
                       [] OTHER -> 4]

\* ArrangementCompiler._parse_harmonic_rhythm, in quarter beats
_parse_harmonic_rhythm(rhythm_str) ==
    CASE rhythm_str = "1bar" -> 16
      [] rhythm_str = "2bar" -> 32
      [] rhythm_str = "half" -> 8
      [] rhythm_str = "quarter" -> 4
      [] rhythm_str = "2beats" -> 8
      [] rhythm_str = "4beats" -> 16
      [] OTHER -> 16

\* Harmony.get_progression_for_section
get_progression_for_section(harmony, section_name) ==
    IF section_name \in DOMAIN harmony.sections
    THEN harmony.sections[section_name].progression
    ELSE harmony.default_progression

\* Layer.get_pattern_for_section
get_pattern_for_section(layer, section_name) ==
    LET pattern_alias == IF section_name \in DOMAIN layer.arrangement
                         THEN layer.arrangement[section_name] ELSE None
    IN  IF IsNone(pattern_alias) THEN None
        ELSE DictGet(layer.patterns, Get(pattern_alias))

\* ArrangementCompiler._has_soloed_layers
_has_soloed_layers(arrangement) ==
    \E j \in 1..Len(arrangement.layers) : arrangement.layers[j][2].solo

\* A layer filter that does not look at solo
LayerPassesIgnoringSolo(arrangement, layer) == ~layer.muted

\* The mute and solo tests at the head of the layer loop
LayerPasses(arrangement, layer) ==
    /\ ~layer.muted
    /\ ~(_has_soloed_layers(arrangement) /\ ~layer.solo)

\* The (velocity, level) pairs, velocity in 0..127 and level in hundredths
\* from 0.0 to 2.0, whose product is a whole number that the double
\* `event.velocity * level` falls just short of (100 * 0.57 is
\* 56.99999999999999)
FloatProductShort ==
    { <<100, 29>>, <<100, 57>>, <<50, 58>>, <<100, 58>>, <<90, 70>>,
      <<100, 113>>, <<50, 114>>, <<100, 114>>, <<100, 115>>, <<25, 116>>,
      <<50, 116>>, <<100, 116>>, <<45, 140>>, <<85, 140>>, <<90, 140>>,
      <<75, 164>> }

\* `int(event.velocity * level)`, level in hundredths: the double product,
\* truncated
IntOfProduct(velocity, level) ==
    IF <<velocity, level>> \in FloatProductShort
    THEN (velocity * level) \div 100 - 1
    ELSE (velocity * level) \div 100

\* `max(0, min(127, int(event.velocity * level)))`, level in hundredths
LevelVelocity(velocity, level) == Max2(0, Min2(127, IntOfProduct(velocity, level)))

\* `if level != 1.0:` of _compile_layer_pattern: the events with their
\* velocities scaled
ApplyLevel(events, level) ==
    IF ~events.ok \/ level = 100 THEN events
    ELSE Ok([k \in 1..Len(events.val) |->
                MidiEvent(events.val[k].pitch, events.val[k].start_ticks,
                          events.val[k].duration_ticks,
                          LevelVelocity(events.val[k].velocity, level),
                          events.val[k].channel).val])

\* ArrangementCompiler._compile_layer_pattern
_compile_layer_pattern(pattern, context, bars, level, tpb) ==
    ApplyLevel(compile(pattern, context, bars, tpb), level)

\* round(x, 3) of x = ticks / tpb, in thousandths
Round3(ticks, tpb) == (2000 * ticks + tpb) \div (2 * tpb)

\* The bars of the sections before the i-th: current_bar when it is compiled
BarsBefore(sections, i) == SumSeq([k \in 1..(i - 1) |-> sections[k].bars])

\* `ticks_per_bar = self.ticks_per_beat * time_sig.beats_per_bar`
TicksPerBar(arrangement, tpb) ==
    tpb * TimeSignatureParse(arrangement.context.time_signature).beats_per_bar

\* The HarmonyContext and the CompileContext compile builds for section i
\* and a layer
LayerContext(arrangement, i, layer, pattern, pattern_ref) ==
    LET section == arrangement.sections[i]
        harmony == [key |-> KeyParse(arrangement.context.key),
                    progression |->
                        get_progression_for_section(arrangement.harmony, section.name),
                    harmonic_rhythm |->
                        _parse_harmonic_rhythm(arrangement.harmony.harmonic_rhythm)]
    IN  [key |-> KeyParse(arrangement.context.key),
         tempo |-> arrangement.context.tempo,
         time_sig |-> TimeSignatureParse(arrangement.context.time_signature),
         harmony |-> harmony,
         role |-> layer.role, channel |-> layer.channel,
         bar_offset |-> BarsBefore(arrangement.sections, i),
         params |-> Some(get_resolved_params(pattern, pattern_ref.variant,
                                             pattern_ref.params))]

\* `for event in midi_events: ... all_notes.append(IRNote(...))`: the notes
\* of the events, each tagged with its provenance
TaggedNotes(events, layer_name, pattern_id, section_name, ticks_per_bar, tpb) ==
    [k \in 1..Len(events) |->
        [start_ticks |-> events[k].start_ticks,
         channel |-> events[k].channel, pitch |-> events[k].pitch,
         duration_ticks |-> events[k].duration_ticks,
         velocity |-> events[k].velocity,
         source_layer |-> Some(layer_name),
         source_pattern |-> Some(pattern_id),
         source_section |-> Some(section_name),
         bar |-> Some(events[k].start_ticks \div ticks_per_bar),
         beat |-> Some(Round3(events[k].start_ticks % ticks_per_bar, tpb))]]

\* The end of the layer loop body: the notes join all_notes, the layer
\* joins layers_compiled and layer_info unless it is there already
Recorded(acc, registry_cache, layer_name, layer, notes) ==
    [notes |-> acc.notes \o notes,
     layers_compiled |->
         IF \E k \in 1..Len(acc.layers_compiled) : acc.layers_compiled[k] = layer_name
         THEN acc.layers_compiled ELSE Append(acc.layers_compiled, layer_name),
     layer_info |->
         IF \E k \in 1..Len(acc.layer_info) : acc.layer_info[k][1] = layer_name
         THEN acc.layer_info
         ELSE Append(acc.layer_info,
                     <<layer_name,
                       [role |-> layer.role, channel |-> layer.channel,
                        level |-> layer.level, muted |-> layer.muted,
                        solo |-> layer.solo]>>),
     cache |-> registry_cache,
     error |-> None]

\* The layer loop body from the events _compile_layer_pattern returned (or
\* the error it raised)
CompiledLayer(arrangement, tpb, i, j, acc, pattern_ref, registry_cache, midi_events) ==
    IF ~midi_events.ok
    THEN [acc EXCEPT !.cache = registry_cache, !.error = Some(midi_events.err)]
    ELSE Recorded(acc, registry_cache, arrangement.layers[j][1], arrangement.layers[j][2],
                  TaggedNotes(midi_events.val, arrangement.layers[j][1], pattern_ref.ref,
                              arrangement.sections[i].name,
                              TicksPerBar(arrangement, tpb), tpb))

\* The layer loop body from the registry's answer: `if not pattern: continue`
FoundPattern(arrangement, tpb, i, j, acc, pattern_ref, found) ==
    IF IsNone(found.pattern) THEN [acc EXCEPT !.cache = found.cache]
    ELSE CompiledLayer(arrangement, tpb, i, j, acc, pattern_ref, found.cache,
                       _compile_layer_pattern(
                           Get(found.pattern),
                           LayerContext(arrangement, i, arrangement.layers[j][2],
                                        Get(found.pattern), pattern_ref),
                           arrangement.sections[i].bars,
                           arrangement.layers[j][2].level, tpb))

\* The layer loop body from the layer's pattern reference for the section:
\* `if not pattern_ref: continue`
ReferredPattern(arrangement, tpb, i, j, acc, pattern_ref) ==
    IF IsNone(pattern_ref) THEN acc
    ELSE FoundPattern(arrangement, tpb, i, j, acc, Get(pattern_ref),
                      get_pattern(acc.cache, Get(pattern_ref).ref))

\* The body of the layer loop of compile for section i and layer j.  acc
\* holds all_notes, layers_compiled, layer_info, the registry cache and the
\* error raised, if any.
CompileLayer(arrangement, tpb, i, j, acc) ==
    IF ~LayerPasses(arrangement, arrangement.layers[j][2]) THEN acc
    ELSE ReferredPattern(arrangement, tpb, i, j, acc,
                         get_pattern_for_section(arrangement.layers[j][2],
                                                 arrangement.sections[i].name))

\* The section loop and the layer loop of compile, from section i, layer j
RECURSIVE CompileFrom(_, _, _, _, _)
CompileFrom(arrangement, tpb, i, j, acc) ==
    IF ~IsNone(acc.error) \/ i > Len(arrangement.sections) THEN acc
    ELSE IF j > Len(arrangement.layers) THEN CompileFrom(arrangement, tpb, i + 1, 1, acc)
    ELSE CompileFrom(arrangement, tpb, i, j + 1, CompileLayer(arrangement, tpb, i, j, acc))

\* `score_ir = ScoreIR(...).canonicalize()`
BuiltScoreIR(arrangement, tpb, acc) ==
    LET sections      == arrangement.sections
        ticks_per_bar == TicksPerBar(arrangement, tpb)
        total_bars    == BarsBefore(sections, Len(sections) + 1)
    IN  canonicalize(
            [schema |-> SCHEMA_VERSION, name |-> arrangement.name,
             key |-> arrangement.context.key, tempo |-> arrangement.context.tempo,
             time_signature |->
                 from_time_sig(TimeSignatureParse(arrangement.context.time_signature)),
             ticks_per_beat |-> tpb,
             total_ticks |-> total_bars * ticks_per_bar, total_bars |-> total_bars,
             notes |-> acc.notes,
             sections |-> [k \in 1..Len(sections) |->
                              IRSectionMarker(sections[k].name,
                                              BarsBefore(sections, k) * ticks_per_bar,
                                              BarsBefore(sections, k + 1) * ticks_per_bar,
                                              sections[k].bars)],
             tempo_events |-> <<IRTempoEvent(0, arrangement.context.tempo)>>,
             layers |-> acc.layer_info])

\* `midi_events = [MidiEvent(...) for note in score_ir.notes]`
NotesToMidiEvents(notes) ==
    [k \in 1..Len(notes) |->
        MidiEvent(notes[k].pitch, notes[k].start_ticks, notes[k].duration_ticks,
                  notes[k].velocity, notes[k].channel).val]

\* compiler/midi.py, score_ir_to_midi: the events of the IR notes, encoded
\* with the tempo and the resolution the IR records
score_ir_to_midi(score_ir) ==
    events_to_midi(NotesToMidiEvents(score_ir.notes), score_ir.tempo,
                   score_ir.ticks_per_beat)

\* The CompileResult compile returns, from the canonical score IR
CompileResult(arrangement, acc, score_ir) ==
    [midi_file |-> events_to_midi(NotesToMidiEvents(score_ir.notes),
                                  arrangement.context.tempo, TICKS_PER_BEAT),
     score_ir |-> score_ir,
     total_bars |-> score_ir.total_bars,
     total_events |-> Len(score_ir.notes),
     layers_compiled |-> acc.layers_compiled,
     sections_compiled |->
         [k \in 1..Len(arrangement.sections) |-> arrangement.sections[k].name]]

\* compile after its section loop: what it returns or raises, and the
\* registry cache it leaves behind
Returned(arrangement, tpb, acc) ==
    [cache |-> acc.cache,
     out |-> IF ~IsNone(acc.error) THEN Err(Get(acc.error))
             ELSE Ok(CompileResult(arrangement, acc,
                                   BuiltScoreIR(arrangement, tpb, acc)))]

\* ArrangementCompiler(registry, tpb).compile(arrangement) on the registry
\* cache c: the CompileResult (or the error raised) and the cache left behind
arranger_compile(arrangement, c, tpb) ==
    Returned(arrangement, tpb,
             CompileFrom(arrangement, tpb, 1, 1,
                         [notes |-> <<>>, layers_compiled |-> <<>>,
                          layer_info |-> <<>>, cache |-> c, error |-> None]))

----------------------------------------------------------------------------
(* ArrangementCompiler.compile: the inputs and the specification Spec *)

MaxSectionBars == 2    \* the second section spans 1..MaxSectionBars bars

\* PatternRef(ref, variant, params)
PatternRef(ref, variant, params) == [ref |-> ref, variant |-> variant, params |-> params]

\* The bass layer: the library bass pattern, plain in the verse and as its
\* "soft" variant with a length override in the chorus
BassLayer(muted, solo, level) ==
    [name |-> "bass", role |-> "bass", channel |-> 0,
     patterns |-> [a \in {"main", "soft"} |->
                      IF a = "main" THEN PatternRef("bass/root-pulse", None, <<>>)
                      ELSE PatternRef("bass/root-pulse", Some("soft"),
                                      [n \in {<<"l", "e", "n">>} |-> Num(2)])],
     arrangement |-> [sec \in {"verse", "chorus"} |->
                         IF sec = "verse" THEN Some("main") ELSE Some("soft")],
     muted |-> muted, solo |-> solo, level |-> level]

\* The levels of the bass layer: 1.0 and 0.57
BassLevels == {100, 57}

\* What the drums layer may name for the chorus: its beat, nothing, an alias
\* whose pattern the registry does not have, an alias it does not define
DrumsChorusAliases == {Some("beat"), None, Some("ghost"), Some("fill")}

DrumsLayer(muted, solo, chorus_alias) ==
    [name |-> "drums", role |-> "drums", channel |-> 9,
     patterns |-> [a \in {"beat", "ghost"} |->
                      IF a = "beat" THEN PatternRef("drums/four", None, <<>>)
                      ELSE PatternRef("drums/missing", None, <<>>)],
     arrangement |-> [sec \in {"verse", "chorus"} |->
                         IF sec = "verse" THEN Some("beat") ELSE chorus_alias],
     muted |-> muted, solo |-> solo, level |-> 150]

\* What the lead layer may name for the verse: nothing, a two-bar phrase, a
\* pattern whose events name no pitch
LeadVerseAliases == {None, Some("hook"), Some("pad")}

LeadLayer(muted, verse_alias) ==
    [name |-> "lead", role |-> "melody", channel |-> 1,
     patterns |-> [a \in {"hook", "pad"} |->
                      IF a = "hook" THEN PatternRef("melody/phrase", None, <<>>)
                      ELSE PatternRef("fx/silent", None, <<>>)],
     arrangement |-> [sec \in {"verse"} |-> verse_alias],
     muted |-> muted, solo |-> FALSE, level |-> 50]

\* Arrangement(...): a verse of one bar and a chorus, the layers in the
\* order lead, bass, drums
Arrangement(ts, bars, lead, bass, drums) ==
    [name |-> "song",
     context |-> [key |-> "D_minor", tempo |-> 124, time_signature |-> ts],
     harmony |-> [default_progression |->
                      << <<"i">>, <<"V", "I">>, <<"I", "I", "I">>, <<"V", "I", "I">> >>,
                  harmonic_rhythm |-> "1bar",
                  sections |-> [sec \in {"chorus"} |->
                                   [progression |-> << <<"I">>, <<"V", "7">> >>,
                                    harmonic_rhythm |-> "1bar"]]],
     sections |-> <<[name |-> "verse", bars |-> 1], [name |-> "chorus", bars |-> bars]>>,
     layers |-> << <<"lead", lead>>, <<"bass", bass>>, <<"drums", drums>> >>]

\* The arrangements compiled: every choice of mutes, solos and assignments
\* with the bass at level 1.0, and the bass at its other levels where the
\* lead and the drums are not muted and the drums play the chorus
Arrangements ==
    { Arrangement(ts, bars, LeadLayer(lm, va), BassLayer(bm, bs, 100),
                  DrumsLayer(dm, ds, ca)) :
        ts \in {<<"4", "/", "4">>, <<"6", "/", "8">>}, bars \in 1..MaxSectionBars,
        lm \in BOOLEAN, va \in LeadVerseAliases, bm \in BOOLEAN, bs \in BOOLEAN,
        dm \in BOOLEAN, ds \in BOOLEAN, ca \in DrumsChorusAliases }
    \cup
    { Arrangement(ts, bars, LeadLayer(FALSE, va), BassLayer(bm, bs, bl),
                  DrumsLayer(FALSE, ds, Some("beat"))) :
        ts \in {<<"4", "/", "4">>, <<"6", "/", "8">>}, bars \in 1..MaxSectionBars,
        va \in LeadVerseAliases, bm \in BOOLEAN, bs \in BOOLEAN,
        bl \in BassLevels, ds \in BOOLEAN }

\* The ids other users of the registry look up between compiles
LookupIds == {"bass/root-pulse", "drums/missing"}

Init ==
    /\ arr \in [arrangement : Arrangements, ticks_per_beat : {TICKS_PER_BEAT, 96}]
    /\ cache = <<>>
    /\ result = None
    /\ prev = None
    /\ hctx = Idle /\ hres = Idle /\ pin = Idle /\ pres = Idle
    /\ ir = Idle /\ irres = Idle

\* ArrangementCompiler(registry, ticks_per_beat).compile(arrangement)
Compile ==
    /\ \E done \in {arranger_compile(arr.arrangement, cache, arr.ticks_per_beat)} :
         /\ result' = Some(done.out)
         /\ prev' = result
         /\ cache' = done.cache
    /\ UNCHANGED <<hctx, hres, pin, pres, ir, irres, arr>>

\* registry.get_pattern(pattern_id), called by another user of the registry
GetPattern ==
    /\ \E pattern_id \in LookupIds : cache' = get_pattern(cache, pattern_id).cache
    /\ UNCHANGED <<hctx, hres, pin, pres, ir, irres, arr, result, prev>>

Next == Compile \/ GetPattern

Spec == Init /\ [][Next]_vars

----------------------------------------------------------------------------
(* Claims about ArrangementCompiler.compile, checked under Spec *)

\* C1: for a fixed Arrangement and pattern set, two invocations of
\* ArrangementCompiler.compile produce identical canonical Score IR JSON and
\* an identical MIDI file, whatever compiles and registry lookups came
\* before and whatever they left in the registry cache.
C1_CompileDeterministic ==
    (result # None /\ prev # None) =>
        /\ Get(result).ok = Get(prev).ok
        /\ Get(result).ok =>
              /\ to_json(Get(result).val.score_ir) = to_json(Get(prev).val.score_ir)
              /\ Get(result).val.midi_file = Get(prev).val.midi_file

\* C1 witness: the arrangement has been compiled twice, the second time on
\* a registry cache the first compile filled, and both compiles returned
\* the same notes and the same MIDI file.
C1_Witness ==
    /\ result # None /\ prev # None
    /\ DOMAIN cache # {}
    /\ Get(result).ok /\ Get(prev).ok
    /\ Len(Get(result).val.score_ir.notes) > 0
    /\ Get(result).val.score_ir = Get(prev).val.score_ir
    /\ Get(result).val.midi_file = Get(prev).val.midi_file

\* The output of the last compile holds a note whose source is the layer
\* and the section
Contributes(layer_name, section_name) ==
    \E k \in 1..Len(Get(result).val.score_ir.notes) :
        /\ Get(result).val.score_ir.notes[k].source_layer = Some(layer_name)
        /\ Get(result).val.score_ir.notes[k].source_section = Some(section_name)

\* The layer is not muted and, when any layer is soloed, is soloed
Audible(layer) ==
    /\ ~layer.muted
    /\ (\E j \in 1..Len(arr.arrangement.layers) : arr.arrangement.layers[j][2].solo)
          => layer.solo

\* No note of the output names a layer that is muted or, when some layer is
\* soloed, not soloed
NoNoteOfSilencedLayer ==
    \A k \in 1..Len(Get(result).val.score_ir.notes) :
        \E j \in 1..Len(arr.arrangement.layers) :
            /\ Get(result).val.score_ir.notes[k].source_layer
                   = Some(arr.arrangement.layers[j][1])
            /\ Audible(arr.arrangement.layers[j][2])

\* The layer's pattern for the section is one the registry has and has at
\* least one event that names a pitch
PatternSounds(layer, section_name) ==
    /\ get_pattern_for_section(layer, section_name) # None
    /\ Get(get_pattern_for_section(layer, section_name)).ref \in DOMAIN Library
    /\ SoundingEvents(Library[Get(get_pattern_for_section(layer, section_name)).ref])
           # <<>>

\* C10 as stated: in any compile, a layer contributes notes to a section if
\* and only if it is not muted, has a pattern assigned to that section and,
\* when any layer is soloed, is itself soloed; no note in the output names a
\* muted layer or, when some layer is soloed, a non-soloed layer.
C10_LayerContributesIffAssigned ==
    (result # None /\ Get(result).ok) =>
        /\ \A i \in 1..Len(arr.arrangement.sections),
              j \in 1..Len(arr.arrangement.layers) :
              Contributes(arr.arrangement.layers[j][1], arr.arrangement.sections[i].name)
              <=> /\ Audible(arr.arrangement.layers[j][2])
                  /\ get_pattern_for_section(arr.arrangement.layers[j][2],
                                             arr.arrangement.sections[i].name) # None
        /\ NoNoteOfSilencedLayer

\* C10, amended: in any compile that returns, a layer contributes notes to a
\* section if and only if it is not muted, has a pattern assigned to that
\* section which the registry resolves and which has at least one event
\* naming a pitch and, when any layer is soloed, is itself soloed; no note
\* in the output names a muted layer or, when some layer is soloed, a
\* non-soloed layer.
C10_LayerContributesIffPatternSounds ==
    (result # None /\ Get(result).ok) =>
        /\ \A i \in 1..Len(arr.arrangement.sections),
              j \in 1..Len(arr.arrangement.layers) :
              Contributes(arr.arrangement.layers[j][1], arr.arrangement.sections[i].name)
              <=> /\ Audible(arr.arrangement.layers[j][2])
                  /\ PatternSounds(arr.arrangement.layers[j][2],
                                   arr.arrangement.sections[i].name)
        /\ NoNoteOfSilencedLayer

\* C10 witness: a compile has returned for an arrangement whose bass is
\* soloed: the bass contributes to the verse and the drums (not muted, not
\* soloed, with a pattern for the verse) do not.
C10_Witness ==
    /\ result # None /\ Get(result).ok
    /\ arr.arrangement.layers[2][2].solo /\ ~arr.arrangement.layers[2][2].muted
    /\ ~arr.arrangement.layers[3][2].solo /\ ~arr.arrangement.layers[3][2].muted
    /\ get_pattern_for_section(arr.arrangement.layers[3][2], "verse") # None
    /\ Contributes("bass", "verse")
    /\ ~Contributes("drums", "verse")

\* The notes of the last compile's output whose source is the layer and the
\* section, each as <<start_ticks, pitch, duration_ticks, velocity>>
NotesOf(layer_name, section_name) ==
    { <<Get(result).val.score_ir.notes[k].start_ticks,
        Get(result).val.score_ir.notes[k].pitch,
        Get(result).val.score_ir.notes[k].duration_ticks,
        Get(result).val.score_ir.notes[k].velocity>> :
        k \in { k \in 1..Len(Get(result).val.score_ir.notes) :
                  /\ Get(result).val.score_ir.notes[k].source_layer = Some(layer_name)
                  /\ Get(result).val.score_ir.notes[k].source_section
                         = Some(section_name) } }

\* The velocity times the level (in hundredths), whole part, clamped to
\* [0,127]
ScaledVelocity(velocity, level) == Max2(0, Min2(127, (velocity * level) \div 100))

\* The events the Pattern Compiler returned, each with its velocity
\* multiplied by the level
ScaledEvents(events, level) ==
    { <<events[k].start_ticks, events[k].pitch, events[k].duration_ticks,
        ScaledVelocity(events[k].velocity, level)>> : k \in 1..Len(events) }

\* What the Pattern Compiler returns for layer j in section i, for a
\* pattern reference the registry resolves
PatternCompilerEvents(i, j, pattern_ref) ==
    compile(Library[pattern_ref.ref],
            LayerContext(arr.arrangement, i, arr.arrangement.layers[j][2],
                         Library[pattern_ref.ref], pattern_ref),
            arr.arrangement.sections[i].bars, arr.ticks_per_beat).val

\* C11: every note a layer contributes has velocity equal to the velocity
\* the Pattern Compiler resolved for it multiplied by the layer's level,
\* clamped to [0,127] after scaling; a level of 1.0 leaves every velocity
\* unchanged.
C11_VelocityScaledByLevel ==
    (result # None /\ Get(result).ok) =>
        \A i \in 1..Len(arr.arrangement.sections),
           j \in 1..Len(arr.arrangement.layers) :
            Contributes(arr.arrangement.layers[j][1], arr.arrangement.sections[i].name)
            => NotesOf(arr.arrangement.layers[j][1], arr.arrangement.sections[i].name)
               = ScaledEvents(
                     PatternCompilerEvents(
                         i, j, Get(get_pattern_for_section(
                                       arr.arrangement.layers[j][2],
                                       arr.arrangement.sections[i].name))),
                     arr.arrangement.layers[j][2].level)

\* The layer's assignment for the section names an alias the layer does not
\* define, or a pattern reference the registry does not have
Unresolved(layer, section_name) ==
    /\ section_name \in DOMAIN layer.arrangement
    /\ layer.arrangement[section_name] # None
    /\ \/ Get(layer.arrangement[section_name]) \notin DOMAIN layer.patterns
       \/ layer.patterns[Get(layer.arrangement[section_name])].ref
              \notin DOMAIN Library

\* The arrangement without the assignment of layer j for section i
WithoutAssignment(arrangement, i, j) ==
    [arrangement EXCEPT
        !.layers[j][2].arrangement[arrangement.sections[i].name] = None]

\* C14: in a full-arrangement compile, a layer whose section assignment
\* names a pattern alias the layer does not define, or whose pattern
\* reference is not found in the registry, is skipped for that section
\* without raising: the compile completes, the layer contributes no notes
\* for that section, and the output is exactly what it would be if that
\* assignment were absent.
C14_UnresolvedAssignmentSkipped ==
    (result # None) =>
        \A i \in 1..Len(arr.arrangement.sections),
           j \in 1..Len(arr.arrangement.layers) :
            Unresolved(arr.arrangement.layers[j][2], arr.arrangement.sections[i].name)
            => /\ Get(result).ok
               /\ ~Contributes(arr.arrangement.layers[j][1],
                               arr.arrangement.sections[i].name)
               /\ Get(result) = arranger_compile(WithoutAssignment(arr.arrangement, i, j),
                                                 cache, arr.ticks_per_beat).out

\* C14 witness: a compile has returned for an arrangement whose drums, not
\* muted and with no layer soloed, name for the chorus a pattern the
\* registry does not have: the drums sound in the verse and not in the
\* chorus, and the bass sounds in the chorus.
C14_Witness ==
    /\ result # None /\ Get(result).ok
    /\ ~_has_soloed_layers(arr.arrangement)
    /\ ~arr.arrangement.layers[3][2].muted /\ ~arr.arrangement.layers[2][2].muted
    /\ arr.arrangement.layers[3][2].arrangement["chorus"] = Some("ghost")
    /\ Unresolved(arr.arrangement.layers[3][2], "chorus")
    /\ Contributes("drums", "verse")
    /\ ~Contributes("drums", "chorus")
    /\ Contributes("bass", "chorus")

\* The section marker of the score IR that carries the name
MarkerOf(score_ir, section_name) ==
    CHOOSE m \in { score_ir.sections[k] : k \in 1..Len(score_ir.sections) } :
        m.name = section_name

\* C22: in a full compile, every note tagged with source section S starts
\* inside S's section marker (marker.start_ticks <= note.start_ticks <
\* marker.end_ticks), in every time signature, for every section length
\* and every pattern length.
C22_NotesStartInsideTheirSection ==
    (result # None /\ Get(result).ok) =>
        \A k \in 1..Len(Get(result).val.score_ir.notes) :
            \E n \in {Get(result).val.score_ir.notes[k]} :
                \E marker \in {MarkerOf(Get(result).val.score_ir,
                                        Get(n.source_section))} :
                    /\ marker.start_ticks <= n.start_ticks
                    /\ n.start_ticks < marker.end_ticks

\* C23: for every compile result, whatever ticks_per_beat the compiler was
\* constructed with, CompileResult.midi_file is identical to
\* score_ir_to_midi(result.score_ir): the same resolution, the same tempo
\* and the same message sequence.
C23_MidiFileIsScoreIrToMidi ==
    (result # None /\ Get(result).ok) =>
        Get(result).val.midi_file = score_ir_to_midi(Get(result).val.score_ir)

\* Harmonic-rhythm strings that are not in the rhythm map
UnknownRhythms == {"", "bogus", "bar", "1 bar", "whole"}

\* C26: when the arrangement's harmonic-rhythm string is unknown or
\* unparseable, the compiler uses one chord per bar: in every time
\* signature, all events of the same bar resolve against the same chord,
\* and the active chord advances by exactly one progression step at each
\* bar boundary.  Checked under SpecHarmony, on the HarmonyContext compile
\* builds with `self._parse_harmonic_rhythm(arrangement.harmony.harmonic_rhythm)`.
C26_UnknownRhythmIsOneChordPerBar ==
    (/\ hres.op = "chord_at" /\ hctx.progression # <<>>
     /\ \E rhythm_str \in UnknownRhythms :
            hctx.harmonic_rhythm = _parse_harmonic_rhythm(rhythm_str)
     /\ hres.pos.beatQ < hctx.ts.unitQ * hctx.ts.beats_per_bar)
    => hres.index = Some(hres.pos.bar % Len(hctx.progression))

----------------------------------------------------------------------------
(* ArrangementCompiler.compile_section: the specification SpecSection *)

\* A lookup that answers an unknown name with the first section
get_section_or_first(arrangement, name) ==
    IF \E k \in 1..Len(arrangement.sections) : arrangement.sections[k].name = name
    THEN Some(arrangement.sections[
                  CHOOSE k \in 1..Len(arrangement.sections) :
                      /\ arrangement.sections[k].name = name
                      /\ \A m \in 1..(k - 1) : arrangement.sections[m].name # name])
    ELSE Some(arrangement.sections[1])

\* Arrangement.get_section: the first section of that name, or None
get_section(arrangement, name) ==
    IF \E k \in 1..Len(arrangement.sections) : arrangement.sections[k].name = name
    THEN Some(arrangement.sections[
                  CHOOSE k \in 1..Len(arrangement.sections) :
                      /\ arrangement.sections[k].name = name
                      /\ \A m \in 1..(k - 1) : arrangement.sections[m].name # name])
    ELSE None

\* What compile_section compiles once it has found the section: that
\* section alone, from bar 0, under the name f"{arrangement.name}:{section_name}"
SectionAlone(arrangement, section) ==
    [arrangement EXCEPT !.name = <<arrangement.name, ":", section.name>>,
                        !.sections = <<section>>]

\* compile_section from the section get_section returned:
\* `if section is None: raise ValueError(f"Section not found: ...")`
CompiledSection(arrangement, c, tpb, section) ==
    IF IsNone(section) THEN [cache |-> c, out |-> Err("ValueError")]
    ELSE arranger_compile(SectionAlone(arrangement, Get(section)), c, tpb)

\* ArrangementCompiler(registry, tpb).compile_section(arrangement,
\* section_name) on the registry cache c
compile_section(arrangement, c, tpb, section_name) ==
    CompiledSection(arrangement, c, tpb, get_section(arrangement, section_name))

\* The names compile_section is asked for: the two sections, and two names
\* no section has
SectionNames == {"verse", "chorus", "bridge", "Verse"}

\* The arrangements compile_section is given: those in 4/4 with the bass at
\* level 1.0
SectionArrangements ==
    { a \in Arrangements : /\ a.context.time_signature = <<"4", "/", "4">>
                           /\ a.layers[2][2].level = 100 }

InitSection ==
    /\ arr \in [arrangement : SectionArrangements, ticks_per_beat : {TICKS_PER_BEAT},
                 section_name : SectionNames]
    /\ cache = <<>>
    /\ result = None
    /\ prev = None
    /\ hctx = Idle /\ hres = Idle /\ pin = Idle /\ pres = Idle
    /\ ir = Idle /\ irres = Idle

\* ArrangementCompiler(registry, ticks_per_beat).compile_section(arrangement,
\* section_name)
CompileSection ==
    /\ \E done \in {compile_section(arr.arrangement, cache, arr.ticks_per_beat,
                                     arr.section_name)} :
         /\ result' = Some(done.out)
         /\ prev' = result
         /\ cache' = done.cache
    /\ UNCHANGED <<hctx, hres, pin, pres, ir, irres, arr>>

NextSection == CompileSection \/ GetPattern

SpecSection == InitSection /\ [][NextSection]_vars

\* C15: compile_section(arrangement, name) raises a not-found error
\* (ValueError) whenever the arrangement has no section called name, and
\* returns no result in that case; it never produces an empty compile for
\* a missing section.
C15_MissingSectionRaises ==
    (/\ result # None
     /\ \A k \in 1..Len(arr.arrangement.sections) :
            arr.arrangement.sections[k].name # arr.section_name)
    => Get(result) = Err("ValueError")

\* C15 witness: compile_section has been called with the name "bridge" on
\* an arrangement of a verse and a chorus, and has raised ValueError.
C15_Witness ==
    /\ result # None
    /\ arr.section_name = "bridge"
    /\ Len(arr.arrangement.sections) = 2
    /\ Get(result) = Err("ValueError")

\* What the claim compares of a note, its start counted from `origin`
Sounding(n, origin) ==
    [start_ticks |-> n.start_ticks - origin, pitch |-> n.pitch,
     duration_ticks |-> n.duration_ticks, velocity |-> n.velocity,
     channel |-> n.channel]

\* The notes of a score IR tagged with the section, each counted from the
\* start of the section's marker
SectionNotesOf(score_ir, section_name) ==
    LET tagged == SelectSeq(score_ir.notes,
                            LAMBDA n : n.source_section = Some(section_name))
    IN  [k \in 1..Len(tagged) |->
            Sounding(tagged[k], MarkerOf(score_ir, section_name).start_ticks)]

\* C25: for any arrangement and any existing section S, the notes produced
\* by compile_section(arrangement, S) are exactly the notes tagged with
\* section S in compile(arrangement), moved earlier by S's start tick: the
\* same count, and the same pitch, duration, velocity and channel for each
\* note.
C25_SectionCompileIsSliceOfFullCompile ==
    (/\ result # None
     /\ \E k \in 1..Len(arr.arrangement.sections) :
            arr.arrangement.sections[k].name = arr.section_name)
    => \E full \in {arranger_compile(arr.arrangement, cache, arr.ticks_per_beat).out} :
          /\ Get(result).ok = full.ok
          /\ full.ok =>
                SameItems([k \in 1..Len(Get(result).val.score_ir.notes) |->
                              Sounding(Get(result).val.score_ir.notes[k], 0)],
                          SectionNotesOf(full.val.score_ir, arr.section_name))

----------------------------------------------------------------------------
(* RomanNumeral.__str__ and RomanNumeral.parse: the specification SpecNumeral *)

\* RomanNumeral(ScaleDegree(degree, alteration), quality, inversion): every
\* degree, flat, natural or sharp, of every quality, in root position and
\* the three inversions
Numerals ==
    [degree : 1..7, alteration : {0 - 1, 0, 1}, quality : DOMAIN QualityIntervals,
     inversion : 0..3]

InitNumeral ==
    /\ hctx \in Numerals
    /\ hres = [op |-> "none"]
    /\ pin = Idle /\ pres = Idle /\ ir = Idle /\ irres = Idle
    /\ arr = Idle /\ cache = Idle /\ result = Idle /\ prev = Idle

\* RomanNumeral.parse(str(numeral))
ParseStr ==
    /\ hres.op = "none"
    /\ hres' = [op |-> "parse_str", text |-> RomanNumeralStr(hctx),
                out |-> RomanNumeralParse(RomanNumeralStr(hctx))]
    /\ UNCHANGED <<hctx, pin, pres, ir, irres, arr, cache, result, prev>>

NextNumeral == ParseStr

SpecNumeral == InitNumeral /\ [][NextNumeral]_vars

\* The diatonic triads of a major key (I, ii, iii, IV, V, vi, vii°) and
\* their seventh-chord forms (IΔ7, ii7, iii7, IVΔ7, V7, vi7, viiø7), as
\* <<degree, quality>>
DiatonicMajor ==
    { <<1, "major">>, <<2, "minor">>, <<3, "minor">>, <<4, "major">>,
      <<5, "major">>, <<6, "minor">>, <<7, "diminished">>,
      <<1, "major_7">>, <<2, "minor_7">>, <<3, "minor_7">>, <<4, "major_7">>,
      <<5, "dominant_7">>, <<6, "minor_7">>, <<7, "half_diminished_7">> }

\* The numeral is one of the diatonic major-key numerals, in root position
\* or one of the inversions its chord has (two for a triad, three for a
\* seventh chord)
DiatonicMajorNumeral(rn) ==
    /\ <<rn.degree, rn.quality>> \in DiatonicMajor
    /\ rn.alteration = 0
    /\ rn.inversion < Cardinality(QualityIntervals[rn.quality])

\* C18: for each of the 7 diatonic major-key Roman numerals and their
\* seventh-chord forms, in root position or any inversion,
\* RomanNumeral.parse(str(numeral)) recovers the same degree, the same
\* quality and the same inversion.
C18_StrParseRoundTrip ==
    (hres.op = "parse_str" /\ DiatonicMajorNumeral(hctx)) =>
        /\ hres.out.ok
        /\ hres.out.val.degree = hctx.degree
        /\ hres.out.val.quality = hctx.quality
        /\ hres.out.val.inversion = hctx.inversion

----------------------------------------------------------------------------
(* IRNote, MidiEvent and ScoreIR.from_json on any field values: the
   specification SpecNote *)

\* The field values a note is built from, inside and outside the MIDI ranges
NoteFields ==
    [pitch : {0 - 1, 0, 60, 127, 128}, velocity : {0 - 1, 0, 127, 128},
     channel : {0 - 1, 0, 15, 16}, start_ticks : {0 - 1, 0, 480},
     duration_ticks : {0 - 1, 0, 480}]

\* The JSON document of an empty song with two notes: middle C and a note
\* of the given fields
DocumentWith(fields) ==
    [to_json(ScoreIR(CHOOSE shell \in IRShells : shell.name = "", <<>>)) EXCEPT
        !.notes = << [start_ticks |-> 0, channel |-> 0, pitch |-> 60,
                      duration_ticks |-> 480, velocity |-> 100],
                     [start_ticks |-> fields.start_ticks, channel |-> fields.channel,
                      pitch |-> fields.pitch, duration_ticks |-> fields.duration_ticks,
                      velocity |-> fields.velocity] >>]

InitNote ==
    /\ ir \in NoteFields
    /\ irres = [op |-> "none"]
    /\ hctx = Idle /\ hres = Idle /\ pin = Idle /\ pres = Idle
    /\ arr = Idle /\ cache = Idle /\ result = Idle /\ prev = Idle

\* IRNote(start_ticks, channel, pitch, duration_ticks, velocity)
NewIRNote ==
    /\ irres.op = "none"
    /\ irres' = [op |-> "IRNote",
                 out |-> IRNoteNew(IRNoteFromDict(ir))]
    /\ UNCHANGED <<hctx, hres, pin, pres, ir, arr, cache, result, prev>>

\* MidiEvent(pitch, start_ticks, duration_ticks, velocity, channel)
NewMidiEvent ==
    /\ irres.op = "none"
    /\ irres' = [op |-> "MidiEvent",
                 out |-> MidiEvent(ir.pitch, ir.start_ticks, ir.duration_ticks,
                                   ir.velocity, ir.channel)]
    /\ UNCHANGED <<hctx, hres, pin, pres, ir, arr, cache, result, prev>>

\* ScoreIR.from_json(document)
FromJsonDocument ==
    /\ irres.op = "none"
    /\ irres' = [op |-> "from_json", out |-> from_json_document(DocumentWith(ir))]
    /\ UNCHANGED <<hctx, hres, pin, pres, ir, arr, cache, result, prev>>

NextNote == NewIRNote \/ NewMidiEvent \/ FromJsonDocument

SpecNote == InitNote /\ [][NextNote]_vars

\* Pitch and velocity in 0-127, channel in 0-15, no negative tick count
InMidiRanges(n) ==
    /\ n.pitch \in 0..127 /\ n.velocity \in 0..127 /\ n.channel \in 0..15
    /\ ~(n.start_ticks < 0) /\ ~(n.duration_ticks < 0)

\* C19: no IRNote or MidiEvent value can exist with pitch outside 0-127,
\* velocity outside 0-127, channel outside 0-15, or a negative start or
\* duration tick count: constructing one fails with an error, so every note
\* of a ScoreIR that from_json returns satisfies these ranges.
C19_NoNoteOutOfRange ==
    (irres.op # "none") =>
        /\ ~InMidiRanges(ir) => irres.out = Err("ValueError")
        /\ (irres.out.ok /\ irres.op \in {"IRNote", "MidiEvent"}) =>
               InMidiRanges(irres.out.val)
        /\ (irres.out.ok /\ irres.op = "from_json") =>
               \A k \in 1..Len(irres.out.val.notes) :
                   InMidiRanges(irres.out.val.notes[k])

\* C19 witness: from_json has been given a document whose second note has
\* channel 16 and every other field in range, and has raised ValueError.
C19_Witness ==
    /\ irres.op = "from_json"
    /\ ir.channel = 16 /\ ir.pitch = 127 /\ ir.velocity = 0
    /\ ir.start_ticks = 0 /\ ir.duration_ticks = 0
    /\ irres.out = Err("ValueError")

----------------------------------------------------------------------------
(* The loops of PatternCompiler.compile, HarmonyContext._clamp_to_register
   and ArrangementCompiler.compile, step by step: the specification
   SpecLoops *)

MaxLoopSections == 2    \* the arrangement has 0..MaxLoopSections sections
MaxLoopLayers == 3      \* and 0..MaxLoopLayers layers

\* An update that leaves current_bar where it is
NextBarSame(current_bar, pattern_bars) == current_bar

\* `current_bar += pattern_bars`
NextBar(current_bar, pattern_bars) == current_bar + pattern_bars

\* The notes _clamp_to_register is given, inside and outside 0..127
ClampNotes == {0 - 30, 0, 35, 60, 100, 127, 160}

\* What each loop is run on: compile on a bars value and a template (its
\* bars > 0, its loop flag); the clamp on a note and a role's register; the
\* arrangement compile on a number of sections and of layers
LoopInputs ==
    [proc : {"compile"}, bars : 0..MaxCompileBars, pattern_bars : 1..MaxPatternBars,
     loop : BOOLEAN]
    \cup [proc : {"clamp"}, midi_note : ClampNotes, role : LayerRoles]
    \cup [proc : {"arrange"}, sections : 0..MaxLoopSections, layers : 0..MaxLoopLayers]

InitLoops ==
    /\ pin \in LoopInputs
    /\ pres = CASE pin.proc = "compile" ->
                     [pc |-> "while", current_bar |-> 0, iterations |-> 0]
                [] pin.proc = "clamp" ->
                     [pc |-> "below", midi_note |-> pin.midi_note]
                [] pin.proc = "arrange" ->
                     [pc |-> "layers", i |-> 1, j |-> 1, visited |-> <<>>]
    /\ hctx = Idle /\ hres = Idle /\ ir = Idle /\ irres = Idle
    /\ arr = Idle /\ cache = Idle /\ result = Idle /\ prev = Idle

\* One pass of `while current_bar < bars:` in PatternCompiler.compile: the
\* iteration is compiled (or raises), current_bar moves on, and a template
\* that does not loop breaks out
WhileIteration ==
    /\ pin.proc = "compile" /\ pres.pc = "while"
    /\ LoopTest(pres.current_bar, pin.bars)
    /\ \E raised \in BOOLEAN :
         pres' = IF raised
                 THEN [pres EXCEPT !.pc = "raised", !.iterations = @ + 1]
                 ELSE [pc |-> IF StopTest(pin.loop) THEN "done" ELSE "while",
                       current_bar |-> NextBar(pres.current_bar, pin.pattern_bars),
                       iterations |-> pres.iterations + 1]
    /\ UNCHANGED <<hctx, hres, pin, ir, irres, arr, cache, result, prev>>

\* The while test fails: `return events`
WhileExit ==
    /\ pin.proc = "compile" /\ pres.pc = "while"
    /\ ~LoopTest(pres.current_bar, pin.bars)
    /\ pres' = [pres EXCEPT !.pc = "done"]
    /\ UNCHANGED <<hctx, hres, pin, ir, irres, arr, cache, result, prev>>

\* `while midi_note < low: midi_note += 12`, one test
ClampBelow ==
    /\ pin.proc = "clamp" /\ pres.pc = "below"
    /\ pres' = IF pres.midi_note < DEFAULT_REGISTERS[pin.role][1]
               THEN [pres EXCEPT !.midi_note = @ + 12]
               ELSE [pres EXCEPT !.pc = "above"]
    /\ UNCHANGED <<hctx, hres, pin, ir, irres, arr, cache, result, prev>>

\* `while midi_note > high: midi_note -= 12`, one test, and the return
ClampAbove ==
    /\ pin.proc = "clamp" /\ pres.pc = "above"
    /\ pres' = IF pres.midi_note > DEFAULT_REGISTERS[pin.role][2]
               THEN [pres EXCEPT !.midi_note = @ - 12]
               ELSE [pc |-> "done",
                     midi_note |-> HardClamp(pres.midi_note,
                                             DEFAULT_REGISTERS[pin.role][1],
                                             DEFAULT_REGISTERS[pin.role][2])]
    /\ UNCHANGED <<hctx, hres, pin, ir, irres, arr, cache, result, prev>>

\* The body of `for layer_name, layer in arrangement.layers.items():` for
\* section i and layer j: the layer is passed over, compiled, or its
\* compile raises
VisitLayer ==
    /\ pin.proc = "arrange" /\ pres.pc = "layers"
    /\ pres.i <= pin.sections /\ pres.j <= pin.layers
    /\ \E outcome \in {"continue", "compiled", "raised"} :
         pres' = [pres EXCEPT !.visited = Append(@, <<pres.i, pres.j>>),
                              !.j = @ + 1,
                              !.pc = IF outcome = "raised" THEN "raised" ELSE @]
    /\ UNCHANGED <<hctx, hres, pin, ir, irres, arr, cache, result, prev>>

\* The layers of section i are exhausted: `current_bar += section_bars` and
\* the next section
EndOfLayers ==
    /\ pin.proc = "arrange" /\ pres.pc = "layers"
    /\ pres.i <= pin.sections /\ pres.j > pin.layers
    /\ pres' = [pres EXCEPT !.i = @ + 1, !.j = 1]
    /\ UNCHANGED <<hctx, hres, pin, ir, irres, arr, cache, result, prev>>

\* The sections are exhausted: the score IR is built and compile returns
EndOfSections ==
    /\ pin.proc = "arrange" /\ pres.pc = "layers"
    /\ pres.i > pin.sections
    /\ pres' = [pres EXCEPT !.pc = "done"]
    /\ UNCHANGED <<hctx, hres, pin, ir, irres, arr, cache, result, prev>>

NextLoops ==
    \/ WhileIteration \/ WhileExit
    \/ ClampBelow \/ ClampAbove
    \/ VisitLayer \/ EndOfLayers \/ EndOfSections

\* A running call takes its next step
SpecLoops == InitLoops /\ [][NextLoops]_vars /\ WF_vars(NextLoops)

\* The call has returned or raised
Terminated == pres.pc \in {"done", "raised"}

\* compile has performed at most ceil(bars / template.bars) iterations, one
\* at most if the template does not loop
IterationsBounded ==
    (pin.proc = "compile") =>
        /\ pres.iterations * pin.pattern_bars < pin.bars + pin.pattern_bars
        /\ ~pin.loop => pres.iterations <= 1

\* No section x layer pair has been visited twice, and once compile has
\* returned every pair has been visited
PairsVisitedOnce ==
    (pin.proc = "arrange") =>
        /\ \A k, m \in 1..Len(pres.visited) :
              pres.visited[k] = pres.visited[m] => k = m
        /\ (pres.pc = "done") =>
              {pres.visited[k] : k \in 1..Len(pres.visited)}
                  = (1..pin.sections) \X (1..pin.layers)

\* C20: compilation terminates: for every bars value PatternCompiler.compile
\* performs at most ceil(bars / template.bars) iterations (one if the
\* pattern does not loop), each register clamp ends after finitely many
\* octave shifts, and ArrangementCompiler.compile finishes after visiting
\* each section x layer pair once.
C20_CompilationTerminates ==
    /\ [](IterationsBounded /\ PairsVisitedOnce)
    /\ <>Terminated

\* C20 witness: a looping 2-bar template compiled for 3 bars has returned
\* after 2 iterations.
C20_Witness ==
    /\ pin.proc = "compile" /\ pin.loop
    /\ pin.bars = 3 /\ pin.pattern_bars = 2
    /\ pres.pc = "done" /\ pres.iterations = 2

----------------------------------------------------------------------------
(* ArrangementManager and the objects it hands out: the specification
   SpecManager *)

\* Under SpecManager the variables hold:
\*   arr    the objects in memory, each known by its index in its list:
\*            arr.arrangements  Arrangement objects [name, harmony, sections,
\*                              layers]; `harmony` is the index of a Harmony
\*                              object, `sections` the arrangement's own list
\*                              of (frozen) sections, `layers` its own dict
\*                              from layer names to indices of Layer objects
\*            arr.layers        Layer objects [muted, patterns, arrangement]
\*            arr.harmonies     Harmony objects [default_progression,
\*                              harmonic_rhythm]
\*   cache  the manager: its _cache dict (name -> index of an Arrangement
\*          object) and the files of arrangements_dir (file name -> YAML dict)
\*   result the last call, the name it was given, what it returned, and
\*          the number of calls made so far
\*   prev   the <<original, copy>> pairs of Arrangement objects duplicate has
\*          built so far

\* d[k] = v
DictSet(d, k, v) == [x \in DOMAIN d \cup {k} |-> IF x = k THEN v ELSE d[x]]

\* d.pop(k, None)
DictPop(d, k) == [x \in DOMAIN d \ {k} |-> d[x]]

\* d.update(other)
DictUpdate(d, other) ==
    [x \in DOMAIN d \cup DOMAIN other |-> IF x \in DOMAIN other THEN other[x] ELSE d[x]]

\* The arrangement names the manager is called with
ArrangementNames == { <<"a">>, <<"a", " ", "2">> }

\* The layer, section and pattern-alias names and the progressions the
\* callers use
LayerNames == {"bass"}
ManagedSections == {"verse"}
PatternAliases == {"main"}
Progressions == { <<"I", "V">> }

\* The number of calls made on the manager and on a restarted manager
\* over the directory it leaves
MaxCalls == 5

\* ArrangementManager.__init__: nothing cached; no file in arrangements_dir
NewManager == [_cache |-> <<>>, files |-> <<>>]

\* No object built yet
NoObjects == [arrangements |-> <<>>, layers |-> <<>>, harmonies |-> <<>>]

\* Harmony(): the field defaults
NewHarmony == [default_progression |-> <<"I">>, harmonic_rhythm |-> "1bar"]

\* Layer(name=..., role=..., channel=...): the field defaults
NewLayer == [muted |-> FALSE, patterns |-> <<>>, arrangement |-> <<>>]

\* ArrangementManager._get_path(name): spaces and slashes become underscores
_get_path(name) ==
    [i \in 1..Len(name) |-> IF name[i] \in {" ", "/"} THEN "_" ELSE name[i]]
        \o <<".arrangement.yaml">>

\* Arrangement.to_yaml_dict of the Arrangement object a: the values of the
\* objects it refers to
to_yaml_dict(heap, a) ==
    [name |-> heap.arrangements[a].name,
     harmony |-> heap.harmonies[heap.arrangements[a].harmony],
     sections |-> heap.arrangements[a].sections,
     layers |-> [n \in DOMAIN heap.arrangements[a].layers |->
                    heap.layers[heap.arrangements[a].layers[n]]]]

\* Arrangement.from_yaml_dict(data): a new Harmony object, a new Layer object
\* for every layer of the document and a new Arrangement object referring to
\* them
from_yaml_dict(heap, data) ==
    LET names == DOMAIN data.layers
        n == Cardinality(names)
        order == CHOOSE f \in [1..n -> names] : \A i, j \in 1..n : f[i] = f[j] => i = j
        heap1 == [heap EXCEPT
                    !.harmonies = Append(@, data.harmony),
                    !.layers = @ \o [i \in 1..n |-> data.layers[order[i]]]]
    IN  [heap |-> [heap1 EXCEPT !.arrangements =
                      Append(@, [name |-> data.name,
                                 harmony |-> Len(heap1.harmonies),
                                 sections |-> data.sections,
                                 layers |-> [x \in names |->
                                     Len(heap.layers)
                                       + (CHOOSE i \in 1..n : order[i] = x)]])],
         out |-> Len(heap.arrangements) + 1]

\* ArrangementManager.load(path)
load(mgr, heap, path) ==
    LET built == from_yaml_dict(heap, mgr.files[path])
    IN  [out |-> built.out, heap |-> built.heap,
         mgr |-> [mgr EXCEPT !._cache =
                     DictSet(@, built.heap.arrangements[built.out].name, built.out)]]

\* ArrangementManager.get(name)
manager_get(mgr, heap, name) ==
    IF name \in DOMAIN mgr._cache
    THEN [out |-> Some(mgr._cache[name]), heap |-> heap, mgr |-> mgr]
    ELSE IF _get_path(name) \in DOMAIN mgr.files
    THEN LET loaded == load(mgr, heap, _get_path(name))
         IN  [out |-> Some(loaded.out), heap |-> loaded.heap,
              mgr |-> [loaded.mgr EXCEPT !._cache = DictSet(@, name, loaded.out)]]
    ELSE [out |-> None, heap |-> heap, mgr |-> mgr]

\* ArrangementManager.create(name, key, tempo)
create(mgr, heap, name) ==
    LET heap1 == [heap EXCEPT !.harmonies = Append(@, NewHarmony)]
        heap2 == [heap1 EXCEPT !.arrangements =
                     Append(@, [name |-> name, harmony |-> Len(heap1.harmonies),
                                sections |-> <<>>, layers |-> <<>>])]
    IN  [out |-> Len(heap2.arrangements), heap |-> heap2,
         mgr |-> [mgr EXCEPT !._cache = DictSet(@, name, Len(heap2.arrangements))]]

\* ArrangementManager.save(arrangement)
save(mgr, heap, a) ==
    [out |-> _get_path(heap.arrangements[a].name), heap |-> heap,
     mgr |-> [mgr EXCEPT
                !.files = DictSet(@, _get_path(heap.arrangements[a].name),
                                  to_yaml_dict(heap, a)),
                !._cache = DictSet(@, heap.arrangements[a].name, a)]]

\* ArrangementManager.delete(name)
manager_delete(mgr, heap, name) ==
    IF _get_path(name) \in DOMAIN mgr.files
    THEN [out |-> TRUE, heap |-> heap,
          mgr |-> [mgr EXCEPT !.files = DictPop(@, _get_path(name)),
                              !._cache = DictPop(@, name)]]
    ELSE [out |-> FALSE, heap |-> heap, mgr |-> mgr]

\* ArrangementManager.duplicate(name, new_name): the new Arrangement object
\* has its own sections list and its own layers dict, and refers to the
\* Harmony object and the Layer objects of the original (a model instance
\* given as a field value is kept as it is)
duplicate(mgr, heap, name, new_name) ==
    LET got == manager_get(mgr, heap, name)
    IN  IF IsNone(got.out)
        THEN [out |-> Err("ValueError"), heap |-> got.heap, mgr |-> got.mgr]
        ELSE LET original == got.heap.arrangements[Get(got.out)]
                 heap1 == [got.heap EXCEPT !.arrangements =
                              Append(@, [name |-> new_name,
                                         harmony |-> original.harmony,
                                         sections |-> original.sections,
                                         layers |-> original.layers])]
             IN  [out |-> Ok(Len(heap1.arrangements)), heap |-> heap1,
                  mgr |-> [got.mgr EXCEPT !._cache =
                              DictSet(@, new_name, Len(heap1.arrangements))]]

\* ArrangementManager.add_section(name, section_name, bars)
add_section(mgr, heap, name, section_name) ==
    LET got == manager_get(mgr, heap, name)
    IN  IF IsNone(got.out)
        THEN [out |-> Err("ValueError"), heap |-> got.heap, mgr |-> got.mgr]
        ELSE [out |-> Ok(Get(got.out)), mgr |-> got.mgr,
              heap |-> [got.heap EXCEPT !.arrangements[Get(got.out)].sections =
                           Append(@, section_name)]]

\* ArrangementManager.add_layer(name, layer_name, role)
add_layer(mgr, heap, name, layer_name) ==
    LET got == manager_get(mgr, heap, name)
    IN  IF IsNone(got.out)
        THEN [out |-> Err("ValueError"), heap |-> got.heap, mgr |-> got.mgr]
        ELSE [out |-> Ok(Get(got.out)), mgr |-> got.mgr,
              heap |-> [got.heap EXCEPT
                           !.layers = Append(@, NewLayer),
                           !.arrangements[Get(got.out)].layers =
                               DictSet(@, layer_name, Len(got.heap.layers) + 1)]]

\* The steps every call on a layer starts with: manager.get(name), then
\* arrangement.get_layer(layer_name); `change` is applied to the Layer object
OnLayer(mgr, heap, name, layer_name, change(_)) ==
    LET got == manager_get(mgr, heap, name)
    IN  IF IsNone(got.out)
        THEN [out |-> Err("Arrangement not found"), heap |-> got.heap, mgr |-> got.mgr]
        ELSE IF layer_name \notin DOMAIN got.heap.arrangements[Get(got.out)].layers
        THEN [out |-> Err("Layer not found"), heap |-> got.heap, mgr |-> got.mgr]
        ELSE [out |-> Ok(Get(got.out)), mgr |-> got.mgr,
              heap |-> [got.heap EXCEPT
                           !.layers[got.heap.arrangements[Get(got.out)].layers[layer_name]] =
                               change(@)]]

\* ArrangementManager.assign_pattern(name, layer_name, pattern_alias,
\* pattern_ref): layer.patterns[pattern_alias] = PatternRef(ref=pattern_ref)
assign_pattern(mgr, heap, name, layer_name, pattern_alias, pattern_ref) ==
    LET change(layer) ==
            [layer EXCEPT !.patterns = DictSet(@, pattern_alias, pattern_ref)]
    IN  OnLayer(mgr, heap, name, layer_name, change)

\* ArrangementManager.arrange_layer(name, layer_name, section_patterns):
\* layer.arrangement.update(section_patterns)
arrange_layer(mgr, heap, name, layer_name, section_patterns) ==
    LET change(layer) ==
            [layer EXCEPT !.arrangement = DictUpdate(@, section_patterns)]
    IN  OnLayer(mgr, heap, name, layer_name, change)

\* music_mute_layer(arrangement, name, muted): layer.muted = muted
music_mute_layer(mgr, heap, arrangement, name, muted) ==
    LET change(layer) == [layer EXCEPT !.muted = muted]
    IN  OnLayer(mgr, heap, arrangement, name, change)

\* ArrangementManager.set_harmony(name, None, progression, harmonic_rhythm)
set_harmony(mgr, heap, name, progression, harmonic_rhythm) ==
    LET got == manager_get(mgr, heap, name)
    IN  IF IsNone(got.out)
        THEN [out |-> Err("ValueError"), heap |-> got.heap, mgr |-> got.mgr]
        ELSE [out |-> Ok(Get(got.out)), mgr |-> got.mgr,
              heap |-> [got.heap EXCEPT
                           !.harmonies[got.heap.arrangements[Get(got.out)].harmony] =
                               [default_progression |-> progression,
                                harmonic_rhythm |-> harmonic_rhythm]]]

InitManager ==
    /\ arr = NoObjects
    /\ cache = NewManager
    /\ result = [op |-> "none", calls |-> 0]
    /\ prev = {}
    /\ hctx = Idle /\ hres = Idle /\ pin = Idle /\ pres = Idle
    /\ ir = Idle /\ irres = Idle

\* The call `op` on `name` has returned `done.out` and left the objects
\* and the manager as `done` says
Called(op, name, done) ==
    /\ result.calls < MaxCalls
    /\ arr' = done.heap
    /\ cache' = done.mgr
    /\ result' = [op |-> op, name |-> name, out |-> done.out,
                  calls |-> result.calls + 1]

Create ==
    /\ \E name \in ArrangementNames :
          Called("create", name, create(cache, arr, name))
    /\ UNCHANGED <<hctx, hres, pin, pres, ir, irres, prev>>

GetArrangement ==
    /\ \E name \in ArrangementNames :
          Called("get", name, manager_get(cache, arr, name))
    /\ UNCHANGED <<hctx, hres, pin, pres, ir, irres, prev>>

\* music_save_arrangement(name): manager.get(name), then manager.save of the
\* arrangement it returned
SaveArrangement ==
    /\ \E name \in ArrangementNames :
          \E got \in {manager_get(cache, arr, name)} :
             IF IsNone(got.out)
             THEN Called("save", name, [got EXCEPT !.out = Err("Arrangement not found")])
             ELSE \E saved \in {save(got.mgr, got.heap, Get(got.out))} :
                     Called("save", name, [saved EXCEPT !.out = Ok(saved.out)])
    /\ UNCHANGED <<hctx, hres, pin, pres, ir, irres, prev>>

Delete ==
    /\ \E name \in ArrangementNames :
          Called("delete", name, manager_delete(cache, arr, name))
    /\ UNCHANGED <<hctx, hres, pin, pres, ir, irres, prev>>

Duplicate ==
    /\ \E name, new_name \in ArrangementNames :
          \E done \in {duplicate(cache, arr, name, new_name)} :
             /\ Called("duplicate", name, done)
             /\ prev' = IF done.out.ok
                        THEN prev \cup {<<Get(manager_get(cache, arr, name).out),
                                           done.out.val>>}
                        ELSE prev
    /\ UNCHANGED <<hctx, hres, pin, pres, ir, irres>>

AddSection ==
    /\ \E name \in ArrangementNames, section_name \in ManagedSections :
          Called("add_section", name, add_section(cache, arr, name, section_name))
    /\ UNCHANGED <<hctx, hres, pin, pres, ir, irres, prev>>

AddLayer ==
    /\ \E name \in ArrangementNames, layer_name \in LayerNames :
          Called("add_layer", name, add_layer(cache, arr, name, layer_name))
    /\ UNCHANGED <<hctx, hres, pin, pres, ir, irres, prev>>

AssignPattern ==
    /\ \E name \in ArrangementNames, layer_name \in LayerNames,
          pattern_alias \in PatternAliases :
          Called("assign_pattern", name,
                   assign_pattern(cache, arr, name, layer_name, pattern_alias,
                                  "bass/root-pulse"))
    /\ UNCHANGED <<hctx, hres, pin, pres, ir, irres, prev>>

ArrangeLayer ==
    /\ \E name \in ArrangementNames, layer_name \in LayerNames,
          section_name \in ManagedSections, pattern_alias \in PatternAliases :
          Called("arrange_layer", name,
                   arrange_layer(cache, arr, name, layer_name,
                                 [s \in {section_name} |-> pattern_alias]))
    /\ UNCHANGED <<hctx, hres, pin, pres, ir, irres, prev>>

MuteLayer ==
    /\ \E arrangement \in ArrangementNames, name \in LayerNames, muted \in BOOLEAN :
          Called("music_mute_layer", arrangement,
                   music_mute_layer(cache, arr, arrangement, name, muted))
    /\ UNCHANGED <<hctx, hres, pin, pres, ir, irres, prev>>

SetHarmony ==
    /\ \E name \in ArrangementNames, progression \in Progressions :
          Called("set_harmony", name,
                   set_harmony(cache, arr, name, progression, "1bar"))
    /\ UNCHANGED <<hctx, hres, pin, pres, ir, irres, prev>>

\* The server starts again: ArrangementManager(arrangements_dir) on the
\* directory as the last run left it, and no object in memory
Restart ==
    /\ result.calls < MaxCalls
    /\ arr' = NoObjects
    /\ cache' = [NewManager EXCEPT !.files = cache.files]
    /\ result' = [op |-> "none", calls |-> result.calls + 1]
    /\ prev' = {}
    /\ UNCHANGED <<hctx, hres, pin, pres, ir, irres>>

NextManager ==
    \/ Create \/ GetArrangement \/ SaveArrangement \/ Delete \/ Duplicate
    \/ AddSection \/ AddLayer \/ AssignPattern \/ ArrangeLayer \/ MuteLayer
    \/ SetHarmony \/ Restart

SpecManager == InitManager /\ [][NextManager]_vars

\* The manager knows an arrangement called name: it has one cached under
\* the name (created, loaded or saved) or on file
Known(mgr, name) ==
    name \in DOMAIN mgr._cache \/ _get_path(name) \in DOMAIN mgr.files

\* C21: delete(name) returns True and removes the arrangement whenever the
\* manager knows an arrangement called name (created, loaded or saved), and
\* returns False only when no such arrangement is found; after delete(name)
\* has returned, get(name) returns None.
C21_DeleteRemovesKnownArrangement ==
    [][ (result'.op = "delete") =>
            /\ result'.out = Known(cache, result'.name)
            /\ IsNone(manager_get(cache', arr', result'.name).out) ]_vars

\* The calls that change an arrangement
Changes ==
    {"add_section", "add_layer", "assign_pattern", "arrange_layer",
     "music_mute_layer", "set_harmony"}

\* C30: after duplicate(name, new_name) the original and the copy are
\* independent: a later change made to one of them (muting a layer,
\* assigning or arranging patterns, setting harmony, adding sections or
\* layers) leaves the state of the other as it was.
C30_DuplicateIsIndependent ==
    [][ (result'.op \in Changes /\ result'.out.ok) =>
            \A pair \in prev : \A k \in 1..2 :
                (cache'._cache[result'.name] = pair[k]) =>
                    to_yaml_dict(arr', pair[3 - k]) = to_yaml_dict(arr, pair[3 - k]) ]_vars

====
